---------------------------- MODULE Spec2Model ----------------------------
(***************************************************************************)
(* TagSelector core (tag-core 1.3.1): comparator, index builder, ancestor  *)
(* closure, export set, sort by user order and Mylio formatter.            *)
(*                                                                         *)
(* Strings (node ids, labels, the output) are sequences of UTF-16 code     *)
(* units, each in 0..65535.  The JavaScript value null is NULL, a sequence *)
(* that is no string because no code unit is negative.  A JavaScript Set   *)
(* or Map iterates in insertion order, so a Set<NodeId> is a sequence      *)
(* without repetition and a Map a function plus the insertion order of its *)
(* keys where the code iterates over it.                                   *)
(***************************************************************************)
EXTENDS Integers, Sequences, FiniteSets, TLC

VARIABLES
    cmpCall,      \* the compareNodes call made: [a, b, ret, called]
    taxonomy,     \* Taxonomy.nodes, the flat node array
    index,        \* the TaxonomyIndex built from taxonomy, or NoIndex
    selectedIds,  \* Set<NodeId> of user-selected ids, in insertion order
    closure,      \* result of computeClosure, in insertion order, or NoValue
    exportSet,    \* result of computeExportSet, in insertion order, or NoValue
    sortInput,    \* the id set given to sortByUserOrder, or NoValue
    sortedIds,    \* result of sortByUserOrder: [status, ids]
    output,       \* result of formatForMylio, or NoOutput
    fmtCall,      \* the formatForMylio call of a caller: [ids, separator, called]
    data,         \* the value given to validateTaxonomy, or NoData
    options,      \* the enforceTagLeaf option given to validateTaxonomy
    validation,   \* ValidationResult of validateTaxonomy: [status, valid, errors]
    jsonString,   \* the string given to importTaxonomy, or NoString
    imported,     \* ImportResult of importTaxonomy(jsonString)
    exported,     \* the string of exportTaxonomy(imported.taxonomy), or NoString
    reimported,   \* ImportResult of importTaxonomy(exported)
    orderInput,   \* the Taxonomy given to initializeOrder or normalizeOrder
    initialized,  \* the Taxonomy returned by initializeOrder, or NoData
    normalized,   \* the Taxonomy returned by normalizeOrder, or NoData
    store,        \* the state of useTaxonomyStore: [taxonomy, index, error,
                  \* validationErrors, isLoading]; error is whether it is set
    call          \* the last call made on the store: what it was given, the
                  \* taxonomy and index it found, and what it returned

\* The variables of the formatter call and of the serialization layer (io/).
ioVars == <<fmtCall, data, options, validation, jsonString, imported, exported,
            reimported, orderInput, initialized, normalized>>

\* The variables of the taxonomy store of the web app.
storeVars == <<store, call>>

vars == <<cmpCall, taxonomy, index, selectedIds, closure, exportSet,
          sortInput, sortedIds, output, fmtCall, data, options, validation,
          jsonString, imported, exported, reimported, orderInput, initialized,
          normalized, store, call>>

---------------------------------------------------------------------------
(* Values *)

NULL == <<-1>>

\* No result yet: of a call that returns ids, and of one that returns a string.
NoValue  == <<NULL>>
NoOutput == NULL

NoCall == [a |-> NULL, b |-> NULL, ret |-> 0, called |-> FALSE]

NoFmtCall == [ids |-> NoValue, separator |-> NULL, called |-> FALSE]

\* No JavaScript value and no string yet.
NoData   == [t |-> "none"]
NoString == [t |-> "none"]

NoValidation == [status |-> "none", valid |-> FALSE, errors |-> <<>>]
NoImport     == [status |-> "none", success |-> FALSE, taxonomy |-> NoData, errors |-> <<>>]

\* The store state after construction: no taxonomy, no index, no error.
NoTaxonomy == [t |-> "null"]

NoStoreIndex == [t |-> "null"]

InitialStore ==
    [taxonomy |-> NoTaxonomy, index |-> NoStoreIndex, error |-> FALSE,
     validationErrors |-> <<>>, isLoading |-> FALSE]

Void == [t |-> "void"]

NoStoreCall ==
    [op |-> "none", args |-> <<>>, before |-> InitialStore, status |-> "none",
     result |-> Void, n |-> 0]

\* The store is as constructed and no call has been made on it.
BlankStore ==
    /\ store = InitialStore
    /\ call = NoStoreCall

\* Nothing of the serialization layer has run, and no caller has formatted.
BlankIo ==
    /\ fmtCall = NoFmtCall
    /\ data = NoData
    /\ options = "undefined"
    /\ validation = NoValidation
    /\ jsonString = NoString
    /\ imported = NoImport
    /\ exported = NoString
    /\ reimported = NoImport
    /\ orderInput = NoData
    /\ initialized = NoData
    /\ normalized = NoData

\* Strings used as labels, by their UTF-16 code units.
StrEmpty == <<>>                 \* ""
StrA1    == <<65, 49>>           \* "A1"
StrA10   == <<65, 49, 48>>       \* "A10"
StrA2    == <<65, 50>>           \* "A2"
StrEmoji == <<55357, 56832>>     \* U+1F600, a surrogate pair
StrTilde == <<65374>>            \* U+FF5E, a BMP character above the surrogates

\* Strings used as node ids.
IdA  == <<97>>                   \* "a"
IdA1 == <<97, 49>>               \* "a1"
IdB  == <<98>>                   \* "b"

\* Largest order value drawn for a node.
MaxOrder == 1

\* Largest number of nodes of a taxonomy whose shape alone is varied.
MaxNodes == 4

\* Largest number of nodes of a taxonomy given in every array order.
MaxAttrNodes == 3

\* Largest number of nodes of a taxonomy with every kind and export field.
MaxExportNodes == 2

\* Largest number of ids of a selection or of an id set given to a call.
MaxSel == 3

Orders == -1..MaxOrder

Sign(n) == IF n < 0 THEN -1 ELSE IF n > 0 THEN 1 ELSE 0

Min(x, y) == IF x <= y THEN x ELSE y

---------------------------------------------------------------------------
(* models/node.ts *)

TagNode(id, label, parentId, kind, order, export) ==
    [id |-> id, label |-> label, parentId |-> parentId, kind |-> kind,
     order |-> order, export |-> export]

shouldExport(node) ==
    IF node.export # "undefined"
    THEN node.export = "true"
    ELSE node.kind = "tag"

---------------------------------------------------------------------------
(* ops/compare.ts *)

\* The JavaScript relation a < b on two strings: the first differing code
\* unit decides, and a proper prefix is less than the longer string.
RECURSIVE StringLess(_, _)
StringLess(a, b) ==
    IF b = <<>> THEN FALSE
    ELSE IF a = <<>> THEN TRUE
    ELSE IF Head(a) # Head(b) THEN Head(a) < Head(b)
    ELSE StringLess(Tail(a), Tail(b))

\* Decoding of a UTF-16 string into Unicode code points (surrogate pairs joined).
RECURSIVE CodePoints(_)
CodePoints(s) ==
    IF s = <<>> THEN <<>>
    ELSE IF Len(s) >= 2 /\ Head(s) \in 55296..56319 /\ s[2] \in 56320..57343
         THEN <<65536 + (Head(s) - 55296) * 1024 + (s[2] - 56320)>>
              \o CodePoints(Tail(Tail(s)))
         ELSE <<Head(s)>> \o CodePoints(Tail(s))

\* Mutant of compareStringsUTF16: compares by Unicode code point.
compareStringsCodePoint(a, b) ==
    IF StringLess(CodePoints(a), CodePoints(b)) THEN -1
    ELSE IF StringLess(CodePoints(b), CodePoints(a)) THEN 1
    ELSE 0

compareStringsUTF16(a, b) ==
    IF StringLess(a, b) THEN -1
    ELSE IF StringLess(b, a) THEN 1
    ELSE 0

\* Mutant of compareNodes: only the order values are compared.
compareNodesOrderOnly(a, b) == a.order - b.order

\* Mutant of compareNodes: the id tie-breaker is left out.
compareNodesNoIdTieBreak(a, b) ==
    IF a.order # b.order THEN a.order - b.order
    ELSE compareStringsUTF16(a.label, b.label)

compareNodes(a, b) ==
    IF a.order # b.order THEN a.order - b.order
    ELSE LET labelCmp == compareStringsUTF16(a.label, b.label)
         IN  IF labelCmp # 0 THEN labelCmp
             ELSE compareStringsUTF16(a.id, b.id)

---------------------------------------------------------------------------
(* Sequences as arrays, Sets and Maps *)

Range(s) == {s[i] : i \in DOMAIN s}

InSeq(x, s) == \E i \in DOMAIN s : s[i] = x

\* The position of the first occurrence of x in s (x occurs in s).
IndexOf(x, s) == CHOOSE i \in DOMAIN s : s[i] = x /\ \A j \in 1..(i - 1) : s[j] # x

\* Set.add / first Map.set of a key: a new key goes last, a known key stays.
SetAdd(s, x) == IF InSeq(x, s) THEN s ELSE Append(s, x)

RECURSIVE KeysOf(_)
\* The keys of a Map filled by one set() per element of keySeq, in insertion order.
KeysOf(keySeq) ==
    IF keySeq = <<>> THEN <<>>
    ELSE SetAdd(KeysOf(SubSeq(keySeq, 1, Len(keySeq) - 1)), keySeq[Len(keySeq)])

\* Sequences without repetition of at most n elements of S.
SeqsNoRep(S, n) ==
    UNION {{q \in [1..k -> S] : \A i, j \in 1..k : (i # j) => (q[i] # q[j])} : k \in 0..n}

\* All orders in which the elements of the insertion-ordered set s can be held.
Perms(s) == {q \in [1..Len(s) -> Range(s)] : Range(q) = Range(s)}

---------------------------------------------------------------------------
(* ops/index-builder.ts *)

\* children.sort(compareNodes): Array.prototype.sort is stable, so the result
\* is that of inserting each element after the elements not greater than it.
RECURSIVE InsertNode(_, _)
InsertNode(sorted, n) ==
    IF sorted = <<>> THEN <<n>>
    ELSE IF compareNodes(n, Head(sorted)) < 0 THEN <<n>> \o sorted
    ELSE <<Head(sorted)>> \o InsertNode(Tail(sorted), n)

RECURSIVE SortNodes(_)
SortNodes(children) ==
    IF children = <<>> THEN <<>>
    ELSE InsertNode(SortNodes(SubSeq(children, 1, Len(children) - 1)),
                    children[Len(children)])

\* Mutant of SortChildren: the children stay in raw array order.
SortChildrenRawOrder(children) == children

SortChildren(children) == SortNodes(children)

\* Step 1: byId, later nodes overwriting earlier ones of the same id.
BuildById(nodes) ==
    [id \in {nodes[i].id : i \in DOMAIN nodes} |->
        LET last == CHOOSE i \in DOMAIN nodes :
                        /\ nodes[i].id = id
                        /\ \A j \in DOMAIN nodes : nodes[j].id = id => j <= i
        IN  nodes[last]]

\* Step 1: childrenOfRaw, the nodes of each parentId in array order.
BuildChildrenOfRaw(nodes) ==
    [p \in {nodes[i].parentId : i \in DOMAIN nodes} |->
        SelectSeq(nodes, LAMBDA n : n.parentId = p)]

\* Step 2: childrenOf, each group sorted by compareNodes and mapped to ids.
BuildChildrenOf(childrenOfRaw) ==
    [p \in DOMAIN childrenOfRaw |->
        LET children == SortChildren(childrenOfRaw[p])
        IN  [i \in DOMAIN children |-> children[i].id]]

\* Step 3: siblingOrdinal, groups visited in Map order, later set() calls
\* overwriting earlier ones.
RECURSIVE OrdinalsOfGroup(_, _, _)
OrdinalsOfGroup(ordinal, childIds, i) ==
    IF i > Len(childIds) THEN ordinal
    ELSE OrdinalsOfGroup(
             [id \in DOMAIN ordinal \cup {childIds[i]} |->
                 IF id = childIds[i] THEN i - 1 ELSE ordinal[id]],
             childIds, i + 1)

RECURSIVE OrdinalsOfGroups(_, _, _)
OrdinalsOfGroups(ordinal, childrenOf, groupKeys) ==
    IF groupKeys = <<>> THEN ordinal
    ELSE OrdinalsOfGroups(OrdinalsOfGroup(ordinal, childrenOf[Head(groupKeys)], 1),
                          childrenOf, Tail(groupKeys))

BuildSiblingOrdinal(childrenOf, groupKeys) ==
    OrdinalsOfGroups(<<>>, childrenOf, groupKeys)

\* computeSortPath: [ok, path] when the walk reaches null, "throws" when an id
\* without ordinal is met, "diverges" when the walk has made more steps than
\* there are nodes (it is then on a parent cycle and never ends).
RECURSIVE SortPathWalk(_, _, _, _, _)
SortPathWalk(byId, siblingOrdinal, currentId, path, steps) ==
    IF currentId = NULL THEN [status |-> "ok", path |-> path]
    ELSE IF currentId \notin DOMAIN siblingOrdinal
         THEN [status |-> "throws", path |-> <<>>]
    ELSE IF steps > Cardinality(DOMAIN byId)
         THEN [status |-> "diverges", path |-> <<>>]
    ELSE SortPathWalk(byId, siblingOrdinal,
                      IF currentId \in DOMAIN byId THEN byId[currentId].parentId ELSE NULL,
                      <<siblingOrdinal[currentId]>> \o path,
                      steps + 1)

\* Mutant of computeSortPath: the ordinals are appended, leaf to root.
computeSortPathLeafFirst(byId, siblingOrdinal, nodeId) ==
    LET r == SortPathWalk(byId, siblingOrdinal, nodeId, <<>>, 0)
    IN  [status |-> r.status,
         path |-> [i \in DOMAIN r.path |-> r.path[Len(r.path) + 1 - i]]]

\* Mutant of computeSortPath: a missing ordinal ends the walk with the path
\* built so far instead of an error.
computeSortPathPartial(byId, siblingOrdinal, nodeId) ==
    LET r == SortPathWalk(byId, siblingOrdinal, nodeId, <<>>, 0)
    IN  IF r.status = "throws" THEN [status |-> "ok", path |-> <<>>] ELSE r

computeSortPath(byId, siblingOrdinal, nodeId) ==
    SortPathWalk(byId, siblingOrdinal, nodeId, <<>>, 0)

NoIndex ==
    [status |-> "none", byId |-> <<>>, childrenOf |-> <<>>,
     siblingOrdinal |-> <<>>, sortPathCache |-> <<>>]

\* status is "ok" when an index is returned; otherwise the first sort path
\* (in byId key order) that does not end well decides: "throws" (Missing
\* ordinal) or "diverges" (the loop of computeSortPath never ends).
buildTaxonomyIndex(nodes) ==
    LET byId == BuildById(nodes)
        byIdKeys == KeysOf([i \in DOMAIN nodes |-> nodes[i].id])
        childrenOfRaw == BuildChildrenOfRaw(nodes)
        groupKeys == KeysOf([i \in DOMAIN nodes |-> nodes[i].parentId])
        childrenOf == BuildChildrenOf(childrenOfRaw)
        siblingOrdinal == BuildSiblingOrdinal(childrenOf, groupKeys)
        paths == [id \in DOMAIN byId |-> computeSortPath(byId, siblingOrdinal, id)]
        bad == {i \in DOMAIN byIdKeys : paths[byIdKeys[i]].status # "ok"}
    IN  IF bad # {}
        THEN LET first == CHOOSE i \in bad : \A j \in bad : i <= j
             IN  [NoIndex EXCEPT !.status = paths[byIdKeys[first]].status]
        ELSE [status |-> "ok",
              byId |-> byId,
              childrenOf |-> childrenOf,
              siblingOrdinal |-> siblingOrdinal,
              sortPathCache |-> [id \in DOMAIN byId |-> paths[id].path]]

---------------------------------------------------------------------------
(* ops/closure.ts *)

\* The while loop of computeClosure for one selected id.
RECURSIVE ClosureWalk(_, _, _)
ClosureWalk(byId, acc, currentId) ==
    IF currentId = NULL THEN acc
    ELSE IF InSeq(currentId, acc) THEN acc
    ELSE ClosureWalk(byId, Append(acc, currentId),
                     IF currentId \in DOMAIN byId THEN byId[currentId].parentId ELSE NULL)

\* The for loop of computeClosure over the selected ids, in iteration order.
RECURSIVE ClosureLoop(_, _, _)
ClosureLoop(byId, acc, ids) ==
    IF ids = <<>> THEN acc
    ELSE ClosureLoop(byId, ClosureWalk(byId, acc, Head(ids)), Tail(ids))

\* Mutant of computeClosure: only the parent of a selected id is added.
computeClosureParentOnly(idx, selected) ==
    LET parents == [i \in DOMAIN selected |->
                       IF selected[i] \in DOMAIN idx.byId
                       THEN idx.byId[selected[i]].parentId ELSE NULL]
    IN  KeysOf(selected \o SelectSeq(parents, LAMBDA p : p # NULL))

\* Mutant of computeClosure: the children of the selected ids are added too.
computeClosureWithChildren(idx, selected) ==
    LET up == ClosureLoop(idx.byId, <<>>, selected)
        kids == {id \in DOMAIN idx.byId : InSeq(idx.byId[id].parentId, selected)}
    IN  IF kids = {} THEN up
        ELSE SetAdd(up, CHOOSE k \in kids : TRUE)

computeClosure(idx, selected) == ClosureLoop(idx.byId, <<>>, selected)

---------------------------------------------------------------------------
(* ops/export-set.ts *)

\* options.includeAncestors is "undefined" when omitted, and defaults to true.
IncludeAncestors(option) == IF option = "undefined" THEN TRUE ELSE option = "true"

\* Mutant of computeExportSet: every candidate tag is exported and no folder,
\* whatever the export field says.
computeExportSetByKind(idx, selected, option) ==
    LET candidates == IF IncludeAncestors(option) THEN computeClosure(idx, selected)
                      ELSE selected
    IN  SelectSeq(candidates,
                  LAMBDA id : id \in DOMAIN idx.byId /\ idx.byId[id].kind = "tag")

\* Mutant of computeExportSet: a candidate without node in byId is exported.
computeExportSetKeepStale(idx, selected, option) ==
    LET candidates == IF IncludeAncestors(option) THEN computeClosure(idx, selected)
                      ELSE selected
    IN  SelectSeq(candidates,
                  LAMBDA id : id \notin DOMAIN idx.byId \/ shouldExport(idx.byId[id]))

computeExportSet(idx, selected, option) ==
    LET candidates == IF IncludeAncestors(option) THEN computeClosure(idx, selected)
                      ELSE selected
    IN  SelectSeq(candidates,
                  LAMBDA id : id \in DOMAIN idx.byId /\ shouldExport(idx.byId[id]))

---------------------------------------------------------------------------
(* ops/sort.ts *)

compareSortPaths(pathA, pathB) ==
    LET minLen == Min(Len(pathA), Len(pathB))
        diffs == {i \in 1..minLen : pathA[i] # pathB[i]}
    IN  IF diffs # {}
        THEN LET i == CHOOSE k \in diffs : \A j \in diffs : k <= j
             IN  pathA[i] - pathB[i]
        ELSE Len(pathA) - Len(pathB)

\* ids.sort(comparator): stable, as for SortNodes.
RECURSIVE InsertId(_, _, _)
InsertId(cache, sorted, id) ==
    IF sorted = <<>> THEN <<id>>
    ELSE IF compareSortPaths(cache[id], cache[Head(sorted)]) < 0 THEN <<id>> \o sorted
    ELSE <<Head(sorted)>> \o InsertId(cache, Tail(sorted), id)

RECURSIVE SortIds(_, _)
SortIds(cache, ids) ==
    IF ids = <<>> THEN <<>>
    ELSE InsertId(cache, SortIds(cache, SubSeq(ids, 1, Len(ids) - 1)), ids[Len(ids)])

\* Mutant of sortByUserOrder: the ids are sorted by their own ordinal only.
sortByOwnOrdinal(idx, nodeIds) ==
    IF Len(nodeIds) >= 2 /\ \E i \in DOMAIN nodeIds : nodeIds[i] \notin DOMAIN idx.sortPathCache
    THEN [status |-> "throws", ids |-> <<>>]
    ELSE [status |-> "ok",
          ids |-> SortIds([id \in DOMAIN idx.siblingOrdinal |-> <<idx.siblingOrdinal[id]>>],
                          nodeIds)]

\* Mutant of sortByUserOrder: the ids are returned in the order given.
sortNothing(idx, nodeIds) == [status |-> "ok", ids |-> nodeIds]

\* The comparator runs only when the array has two elements or more, and every
\* element of such an array is compared at least once: then an id without
\* sort path makes it throw.
sortByUserOrder(idx, nodeIds) ==
    IF Len(nodeIds) >= 2 /\ \E i \in DOMAIN nodeIds : nodeIds[i] \notin DOMAIN idx.sortPathCache
    THEN [status |-> "throws", ids |-> <<>>]
    ELSE [status |-> "ok", ids |-> SortIds(idx.sortPathCache, nodeIds)]

---------------------------------------------------------------------------
(* ops/format.ts *)

DEFAULT_SEPARATOR == <<44, 32>>  \* ", "

\* Array.prototype.join
RECURSIVE Join(_, _)
Join(strings, separator) ==
    IF strings = <<>> THEN <<>>
    ELSE IF Len(strings) = 1 THEN strings[1]
    ELSE strings[1] \o separator \o Join(Tail(strings), separator)

\* Mutant of formatForMylio: an id absent from byId leaves an empty entry.
formatForMylioKeepAbsent(idx, ids, separator) ==
    LET labels == [i \in DOMAIN ids |->
                      IF ids[i] \in DOMAIN idx.byId THEN idx.byId[ids[i]].label ELSE <<>>]
    IN  Join(labels, separator)

\* The separator parameter: DEFAULT_SEPARATOR when the argument is omitted.
SeparatorOrDefault(separator) ==
    IF separator = NULL THEN DEFAULT_SEPARATOR ELSE separator

formatForMylio(idx, ids, separator) ==
    LET known == SelectSeq(ids, LAMBDA id : id \in DOMAIN idx.byId)
        labels == [i \in DOMAIN known |-> idx.byId[known[i]].label]
    IN  Join(labels, separator)

---------------------------------------------------------------------------
(* Comparator specification: every call compareNodes(a, b) on nodes drawn  *)
(* from CmpNodes.                                                          *)

CmpLabels == {StrEmpty, StrA1, StrA10, StrA2, StrEmoji, StrTilde}
CmpIds    == {IdA, IdA1, IdB}

CmpNodes ==
    {TagNode(i, l, NULL, "tag", o, "undefined") :
        i \in CmpIds, l \in CmpLabels, o \in Orders}

InitCompare ==
    /\ cmpCall = NoCall
    /\ taxonomy = <<>>
    /\ index = NoIndex
    /\ selectedIds = NoValue
    /\ closure = NoValue
    /\ exportSet = NoValue
    /\ sortInput = NoValue
    /\ sortedIds = [status |-> "none", ids |-> NoValue]
    /\ output = NoOutput
    /\ BlankIo
    /\ BlankStore

CompareNodes ==
    /\ ~cmpCall.called
    /\ \E a \in CmpNodes, b \in CmpNodes :
        /\ cmpCall' = [a |-> a, b |-> b, ret |-> compareNodes(a, b), called |-> TRUE]
        /\ UNCHANGED <<taxonomy, index, selectedIds, closure, exportSet,
                       sortInput, sortedIds, output>>
        /\ UNCHANGED ioVars
        /\ UNCHANGED storeVars

NextCompare == CompareNodes

SpecCompare == InitCompare /\ [][NextCompare]_vars

\* C4: compareNodes is a total order: the sign of compareNodes(a, b) is the
\* opposite of the sign of compareNodes(b, a), a < b and b < c imply a < c
\* for every third node c, and the result is zero only when the ids are equal.
C4_CompareNodesTotalOrder ==
    cmpCall.called =>
        LET a == cmpCall.a
            b == cmpCall.b
        IN  /\ Sign(cmpCall.ret) = -Sign(compareNodes(b, a))
            /\ \A c \in CmpNodes :
                   (cmpCall.ret < 0 /\ compareNodes(b, c) < 0) => compareNodes(a, c) < 0
            /\ (cmpCall.ret = 0) => (a.id = b.id)

\* Two nodes with equal order and label and distinct ids were compared, and
\* the call did not answer zero.
C4_Witness ==
    /\ cmpCall.called
    /\ cmpCall.a.order = cmpCall.b.order
    /\ cmpCall.a.label = cmpCall.b.label
    /\ cmpCall.a.id # cmpCall.b.id
    /\ cmpCall.ret < 0

\* Lexicographic order on sequences of code units, stated without recursion:
\* s and t agree on the first k units, and then s ends and t goes on, or the
\* next unit of s is the smaller.
LexLess(s, t) ==
    \E k \in 0..Min(Len(s), Len(t)) :
        /\ \A i \in 1..k : s[i] = t[i]
        /\ \/ k = Len(s) /\ k < Len(t)
           \/ k < Len(s) /\ k < Len(t) /\ s[k + 1] < t[k + 1]

\* C5: compareNodes decides by order ascending; for equal orders by label, and
\* for equal labels by id, both in lexicographic order of the 16-bit code
\* units with a proper prefix first: "A1" < "A10" < "A2", "" sorts first.
C5_CompareNodesTieBreakChain ==
    /\ compareStringsUTF16(StrA1, StrA10) < 0
    /\ compareStringsUTF16(StrA10, StrA2) < 0
    /\ \A l \in CmpLabels \ {StrEmpty} : compareStringsUTF16(StrEmpty, l) < 0
    /\ cmpCall.called =>
        LET a == cmpCall.a
            b == cmpCall.b
            r == cmpCall.ret
        IN  /\ (a.order # b.order) => ((r < 0) <=> (a.order < b.order)) /\ r # 0
            /\ (a.order = b.order /\ a.label # b.label) =>
                   /\ (r < 0) <=> LexLess(a.label, b.label)
                   /\ (r > 0) <=> LexLess(b.label, a.label)
            /\ (a.order = b.order /\ a.label = b.label) =>
                   /\ (r < 0) <=> LexLess(a.id, b.id)
                   /\ (r > 0) <=> LexLess(b.id, a.id)

\* Equal orders, and the labels are a surrogate pair and a BMP character
\* above the surrogate range: the code units, not the code points, decided.
C5_Witness ==
    /\ cmpCall.called
    /\ cmpCall.a.order = cmpCall.b.order
    /\ cmpCall.a.label = StrEmoji
    /\ cmpCall.b.label = StrTilde
    /\ cmpCall.ret < 0

---------------------------------------------------------------------------
(* Taxonomies *)

\* The id of the node created k-th: "a", "b", "c", ...
PosId(k) == <<96 + k>>

\* An id that no node of a taxonomy carries (a stale id of a caller).
StaleId == <<122>>               \* "z"

RECURSIVE ReachesRoot(_, _, _)
ReachesRoot(par, i, fuel) ==
    IF i = 0 THEN TRUE
    ELSE IF fuel = 0 THEN FALSE
    ELSE ReachesRoot(par, par[i], fuel - 1)

\* The parent maps on n array positions (0 for a root) without a cycle.
Forests(n) == {par \in [1..n -> 0..n] : \A i \in 1..n : ReachesRoot(par, i, n)}

\* Order values of sibling nodes: collisions happen.
SortOrders == 0..MaxOrder

\* Labels by array position: the first node's label extends the label that
\* all the others share.
SortLabel(i) == IF i = 1 THEN StrA10 ELSE StrA1

Injective(f) == \A i, j \in DOMAIN f : (i # j) => (f[i] # f[j])

MkTaxonomy(n, ids, par, labels, kinds, orders, exports) ==
    [i \in 1..n |->
        TagNode(ids[i], labels[i], IF par[i] = 0 THEN NULL ELSE ids[par[i]],
                kinds[i], orders[i], exports[i])]

Blank ==
    /\ cmpCall = NoCall
    /\ index = NoIndex
    /\ selectedIds = NoValue
    /\ closure = NoValue
    /\ exportSet = NoValue
    /\ sortInput = NoValue
    /\ sortedIds = [status |-> "none", ids |-> NoValue]
    /\ output = NoOutput
    /\ BlankIo
    /\ BlankStore

---------------------------------------------------------------------------
(* Index specification: buildTaxonomyIndex on every valid taxonomy of at   *)
(* most MaxAttrNodes nodes, in every array order (every assignment of ids  *)
(* to array positions), with every order value in 0..MaxOrder.  Order ties *)
(* are broken by label for the first node and by id among the others.      *)

IndexLabels == {StrA1, StrA10}

InitIndex ==
    /\ \E n \in 0..MaxAttrNodes :
          \E ids \in {f \in [1..n -> {PosId(k) : k \in 1..MaxAttrNodes}] : Injective(f)},
             par \in Forests(n),
             orders \in [1..n -> SortOrders] :
              taxonomy = MkTaxonomy(n, ids, par, [i \in 1..n |-> SortLabel(i)],
                                    [i \in 1..n |-> "tag"], orders,
                                    [i \in 1..n |-> "undefined"])
    /\ Blank

\* The index is built from the taxonomy held; a throw leaves no index, and a
\* build that never returns leaves none either (status says which).
BuildTaxonomyIndex ==
    /\ index.status = "none"
    /\ index' = buildTaxonomyIndex(taxonomy)
    /\ UNCHANGED <<cmpCall, taxonomy, selectedIds, closure, exportSet,
                   sortInput, sortedIds, output>>
    /\ UNCHANGED ioVars
    /\ UNCHANGED storeVars

NextIndex == BuildTaxonomyIndex

SpecIndex == InitIndex /\ [][NextIndex]_vars

\* The node of the taxonomy held that carries the id (ids are unique).
NodeOf(id) == taxonomy[CHOOSE i \in DOMAIN taxonomy : taxonomy[i].id = id]

\* The ids of the nodes with parentId p, in raw array order.
RawChildIds(p) ==
    LET g == SelectSeq(taxonomy, LAMBDA n : n.parentId = p)
    IN  [i \in DOMAIN g |-> g[i].id]

\* C6: childrenOf has one list per parentId in use (NULL for the roots); the
\* list of p holds exactly the ids of the nodes with parentId p, each once,
\* in strictly ascending compareNodes order, and every node id is in exactly
\* one list.
C6_ChildrenOfSorted ==
    (index.status = "ok") =>
        LET childrenOf == index.childrenOf
        IN  /\ DOMAIN childrenOf = {taxonomy[i].parentId : i \in DOMAIN taxonomy}
            /\ \A p \in DOMAIN childrenOf :
                  /\ Range(childrenOf[p]) = Range(RawChildIds(p))
                  /\ Len(childrenOf[p]) = Len(RawChildIds(p))
                  /\ \A i, j \in DOMAIN childrenOf[p] :
                        (i < j) => compareNodes(NodeOf(childrenOf[p][i]),
                                                NodeOf(childrenOf[p][j])) < 0
            /\ \A k \in DOMAIN taxonomy :
                  Cardinality({pi \in {<<p, i>> : p \in DOMAIN childrenOf, i \in 1..Len(taxonomy)} :
                                  /\ pi[2] \in DOMAIN childrenOf[pi[1]]
                                  /\ childrenOf[pi[1]][pi[2]] = taxonomy[k].id}) = 1

\* An index was built in which some sibling list is not in raw array order.
C6_Witness ==
    /\ index.status = "ok"
    /\ \E p \in DOMAIN index.childrenOf :
          /\ Len(index.childrenOf[p]) = MaxAttrNodes
          /\ index.childrenOf[p] # RawChildIds(p)

\* The number of nodes on the parent chain of id, id included.
RECURSIVE Depth(_)
Depth(id) == IF NodeOf(id).parentId = NULL THEN 1 ELSE 1 + Depth(NodeOf(id).parentId)

\* C7: siblingOrdinal[id] is the zero-based position of id in the childrenOf
\* list of its parent, the ordinals of a group of n siblings are 0..n-1, and
\* sortPathCache[id] is <<ordinal>> for a root and the parent's path followed
\* by the ordinal otherwise, so its length is the depth of the node.
C7_OrdinalsAndSortPaths ==
    (index.status = "ok") =>
        /\ DOMAIN index.siblingOrdinal = {taxonomy[i].id : i \in DOMAIN taxonomy}
        /\ DOMAIN index.sortPathCache = {taxonomy[i].id : i \in DOMAIN taxonomy}
        /\ \A k \in DOMAIN taxonomy :
              LET id == taxonomy[k].id
                  p == taxonomy[k].parentId
                  ordinal == index.siblingOrdinal[id]
              IN  /\ ordinal + 1 \in DOMAIN index.childrenOf[p]
                  /\ index.childrenOf[p][ordinal + 1] = id
                  /\ index.sortPathCache[id] =
                        IF p = NULL THEN <<ordinal>>
                        ELSE Append(index.sortPathCache[p], ordinal)
                  /\ Len(index.sortPathCache[id]) = Depth(id)
        /\ \A p \in DOMAIN index.childrenOf :
              {index.siblingOrdinal[index.childrenOf[p][i]] : i \in DOMAIN index.childrenOf[p]}
                  = 0..(Len(index.childrenOf[p]) - 1)

\* An index was built for two roots and a child of the second root: the
\* path of the child is <<1, 0>>.
C7_Witness ==
    /\ index.status = "ok"
    /\ \E id \in DOMAIN index.sortPathCache :
          /\ Len(index.sortPathCache[id]) = 2
          /\ index.sortPathCache[id][1] = 1
          /\ index.sortPathCache[id][2] = 0

---------------------------------------------------------------------------
(* Closure specification: computeClosure on the index of every valid       *)
(* taxonomy shape of at most MaxNodes nodes, for every selection of at     *)
(* most MaxSel ids (a stale id among them) in every iteration order.       *)

TaxonomyIds == {taxonomy[i].id : i \in DOMAIN taxonomy}

Selections == SeqsNoRep(TaxonomyIds \cup {StaleId}, MaxSel)

InitClosure ==
    /\ \E n \in 0..MaxNodes :
          \E par \in Forests(n) :
              taxonomy = MkTaxonomy(n, [i \in 1..n |-> PosId(i)], par,
                                    [i \in 1..n |-> StrA1], [i \in 1..n |-> "tag"],
                                    [i \in 1..n |-> 0], [i \in 1..n |-> "undefined"])
    /\ Blank

ComputeClosure ==
    /\ index.status = "ok"
    /\ closure = NoValue
    /\ \E selected \in Selections :
          /\ selectedIds' = selected
          /\ closure' = computeClosure(index, selected)
    /\ UNCHANGED <<cmpCall, taxonomy, index, exportSet, sortInput, sortedIds, output>>
    /\ UNCHANGED ioVars
    /\ UNCHANGED storeVars

NextClosure == BuildTaxonomyIndex \/ ComputeClosure

SpecClosure == InitClosure /\ [][NextClosure]_vars

\* The ancestors of a node of the taxonomy held: parent, parent's parent, ...
RECURSIVE AncestorsOf(_)
AncestorsOf(id) ==
    IF id \notin TaxonomyIds \/ NodeOf(id).parentId = NULL THEN {}
    ELSE {NodeOf(id).parentId} \cup AncestorsOf(NodeOf(id).parentId)

\* C1: for a selection S of ids of the index, computeClosure returns exactly
\* S and every ancestor of every member of S, each once, in whatever order S
\* was iterated.
C1_ClosureIsSelectionAndAncestors ==
    (closure # NoValue /\ Range(selectedIds) \subseteq TaxonomyIds) =>
        /\ Range(closure) =
              Range(selectedIds) \cup UNION {AncestorsOf(id) : id \in Range(selectedIds)}
        /\ Len(closure) = Cardinality(Range(closure))

\* Two selected ids share an ancestor that is not selected, the later one has
\* two ancestors or more, and the walk from it stopped early at the shared one.
C1_Witness ==
    /\ closure # NoValue
    /\ Range(selectedIds) \subseteq TaxonomyIds
    /\ \E i, j \in DOMAIN selectedIds :
          /\ i < j
          /\ Cardinality(AncestorsOf(selectedIds[j])) >= 2
          /\ (AncestorsOf(selectedIds[i]) \cap AncestorsOf(selectedIds[j]))
                 \ Range(selectedIds) # {}
          /\ AncestorsOf(selectedIds[j]) \subseteq Range(closure)

\* C2 as stated: the closure holds no descendant of a selected id unless that
\* descendant is itself selected.
C2_NoDescendantUnlessSelected ==
    (closure # NoValue) =>
        \A x \in Range(closure) :
            (\E sel \in Range(selectedIds) : sel \in AncestorsOf(x)) =>
                x \in Range(selectedIds)

\* C2: the closure holds no descendant of a selected id unless that descendant
\* is itself selected or is an ancestor of a selected id.
C2_NoDescendantUnlessSelectedOrAncestor ==
    (closure # NoValue) =>
        \A x \in Range(closure) :
            (\E sel \in Range(selectedIds) : sel \in AncestorsOf(x)) =>
                \/ x \in Range(selectedIds)
                \/ \E sel \in Range(selectedIds) : x \in AncestorsOf(sel)

\* A selected id has a child and a grandchild, neither selected, and the
\* closure holds neither.
C2_Witness ==
    /\ closure # NoValue
    /\ \E sel \in Range(selectedIds) :
          \E x, y \in TaxonomyIds \ Range(selectedIds) :
              /\ NodeOf(x).parentId = sel
              /\ NodeOf(y).parentId = x
              /\ x \notin Range(closure)
              /\ y \notin Range(closure)

---------------------------------------------------------------------------
(* Export-set specification: computeExportSet on the index of every valid  *)
(* taxonomy of at most MaxExportNodes nodes with every kind and export     *)
(* field, for every selection and every includeAncestors option.           *)

Kinds == {"folder", "tag"}
ExportFields == {"undefined", "true", "false"}

InitExport ==
    /\ \E n \in 0..MaxExportNodes :
          \E par \in Forests(n),
             kinds \in [1..n -> Kinds],
             exports \in [1..n -> ExportFields] :
              taxonomy = MkTaxonomy(n, [i \in 1..n |-> PosId(i)], par,
                                    [i \in 1..n |-> StrA1], kinds,
                                    [i \in 1..n |-> 0], exports)
    /\ Blank

ComputeExportSet ==
    /\ index.status = "ok"
    /\ exportSet = NoValue
    /\ \E selected \in Selections, option \in ExportFields :
          /\ selectedIds' = selected
          /\ closure' = IF IncludeAncestors(option) THEN computeClosure(index, selected)
                        ELSE NoValue
          /\ exportSet' = computeExportSet(index, selected, option)
    /\ UNCHANGED <<cmpCall, taxonomy, index, sortInput, sortedIds, output>>
    /\ UNCHANGED ioVars
    /\ UNCHANGED storeVars

NextExport == BuildTaxonomyIndex \/ ComputeExportSet

SpecExport == InitExport /\ [][NextExport]_vars

\* C3: the export set is exactly the candidates that are ids of the index and
\* whose node has export true, or no export field and kind tag; the candidates
\* are the closure when includeAncestors is true or omitted, and the selection
\* when it is false.
C3_ExportSetIsFilteredCandidates ==
    (exportSet # NoValue) =>
        LET candidates ==
                IF closure # NoValue
                THEN Range(selectedIds) \cup UNION {AncestorsOf(id) : id \in Range(selectedIds)}
                ELSE Range(selectedIds)
        IN  /\ Range(exportSet) =
                  {c \in candidates \cap TaxonomyIds :
                      \/ NodeOf(c).export = "true"
                      \/ NodeOf(c).export = "undefined" /\ NodeOf(c).kind = "tag"}
            /\ Len(exportSet) = Cardinality(Range(exportSet))

\* With ancestors included, a folder with export true was exported and a tag
\* with export false was not, and a stale id was selected.
C3_Witness ==
    /\ exportSet # NoValue
    /\ closure # NoValue
    /\ InSeq(StaleId, selectedIds)
    /\ \E f \in Range(exportSet) \ Range(selectedIds) :
          NodeOf(f).kind = "folder" /\ NodeOf(f).export = "true"
    /\ \E t \in Range(selectedIds) \cap TaxonomyIds :
          NodeOf(t).kind = "tag" /\ NodeOf(t).export = "false" /\ ~InSeq(t, exportSet)

---------------------------------------------------------------------------
(* Sort specification: sortByUserOrder on the index of every valid         *)
(* taxonomy shape of at most MaxNodes nodes with every order value in      *)
(* 0..MaxOrder, for every id set of at most MaxSel ids in every order.     *)
(* Order ties are broken by label for the first node and by id among the   *)
(* others.                                                                 *)

InitSort ==
    /\ \E n \in 0..MaxNodes :
          \E par \in Forests(n),
             orders \in [1..n -> SortOrders] :
              taxonomy = MkTaxonomy(n, [i \in 1..n |-> PosId(i)], par,
                                    [i \in 1..n |-> SortLabel(i)], [i \in 1..n |-> "tag"],
                                    orders, [i \in 1..n |-> "undefined"])
    /\ Blank

SortByUserOrder(nodeIds) ==
    /\ index.status = "ok"
    /\ sortedIds.status = "none"
    /\ sortInput' = nodeIds
    /\ sortedIds' = sortByUserOrder(index, nodeIds)
    /\ UNCHANGED <<cmpCall, taxonomy, index, selectedIds, closure, exportSet, output>>
    /\ UNCHANGED ioVars
    /\ UNCHANGED storeVars

\* A caller sorts an id set of its own.
SortIdSet == \E nodeIds \in Selections : SortByUserOrder(nodeIds)

NextSort == BuildTaxonomyIndex \/ SortIdSet

SpecSort == InitSort /\ [][NextSort]_vars

\* id itself and its descendants.
Subtree(id) == {id} \cup {x \in TaxonomyIds : id \in AncestorsOf(x)}

\* The position of an id in the sorted result.
SortedPos(id) == IndexOf(id, sortedIds.ids)

\* C9: for siblings A and B with siblingOrdinal(A) < siblingOrdinal(B), every
\* id of the result that is A or a descendant of A comes before every id
\* that is B or a descendant of B.
C9_NoSubtreeInterleaving ==
    (sortedIds.status = "ok") =>
        \A a, b \in TaxonomyIds :
            (/\ a # b
             /\ NodeOf(a).parentId = NodeOf(b).parentId
             /\ index.siblingOrdinal[a] < index.siblingOrdinal[b]) =>
                \A x \in Subtree(a) \cap Range(sortedIds.ids) :
                    \A y \in Subtree(b) \cap Range(sortedIds.ids) :
                        SortedPos(x) < SortedPos(y)

\* Siblings A and B of equal order, A first; a descendant of A was given
\* after B and after a descendant of B, and came out before both.
C9_Witness ==
    /\ sortedIds.status = "ok"
    /\ \E a, b \in TaxonomyIds :
          /\ NodeOf(a).parentId = NodeOf(b).parentId
          /\ NodeOf(a).order = NodeOf(b).order
          /\ index.siblingOrdinal[a] < index.siblingOrdinal[b]
          /\ \E x \in Subtree(a) \ {a}, y \in Subtree(b) \ {b} :
                /\ sortInput = <<b, y, x>>
                /\ sortedIds.ids = <<x, b, y>>

\* C10: for an id set of ids of the index, the result holds the same ids, each
\* once, consecutive entries in strictly ascending lexicographic order of
\* their sort paths (a strict prefix first), so an ancestor comes before its
\* descendants.
C10_SortedIsAscendingPermutation ==
    (sortedIds.status # "none" /\ Range(sortInput) \subseteq TaxonomyIds) =>
        LET ids == sortedIds.ids
        IN  /\ sortedIds.status = "ok"
            /\ Len(ids) = Len(sortInput)
            /\ Range(ids) = Range(sortInput)
            /\ \A i \in 1..(Len(ids) - 1) :
                  LexLess(index.sortPathCache[ids[i]], index.sortPathCache[ids[i + 1]])
            /\ \A i, j \in DOMAIN ids :
                  (ids[i] \in AncestorsOf(ids[j])) => (i < j)

\* Three ids were given with a descendant before its ancestor and came out
\* in another order.
C10_Witness ==
    /\ sortedIds.status = "ok"
    /\ Len(sortInput) = MaxSel
    /\ Range(sortInput) \subseteq TaxonomyIds
    /\ sortInput[2] \in AncestorsOf(sortInput[1])
    /\ sortedIds.ids # sortInput

---------------------------------------------------------------------------
(* Export pipeline specification: computeExportSet, then sortByUserOrder,  *)
(* then formatForMylio, on the index of every valid taxonomy of at most    *)
(* MaxAttrNodes nodes with every order value in 0..MaxOrder and two        *)
(* labels, for every selection and every includeAncestors option.          *)

Init ==
    /\ \E n \in 0..MaxAttrNodes :
          \E par \in Forests(n),
             labels \in [1..n -> IndexLabels],
             orders \in [1..n -> SortOrders] :
              taxonomy = MkTaxonomy(n, [i \in 1..n |-> PosId(i)], par, labels,
                                    [i \in 1..n |-> "tag"], orders,
                                    [i \in 1..n |-> "undefined"])
    /\ Blank

\* The pipeline sorts the export set.
SortExportSet ==
    /\ exportSet # NoValue
    /\ SortByUserOrder(exportSet)

FormatForMylio ==
    /\ sortedIds.status = "ok"
    /\ output = NoOutput
    /\ output' = formatForMylio(index, sortedIds.ids, DEFAULT_SEPARATOR)
    /\ UNCHANGED <<cmpCall, taxonomy, index, selectedIds, closure, exportSet,
                   sortInput, sortedIds>>
    /\ UNCHANGED ioVars
    /\ UNCHANGED storeVars

Next ==
    \/ BuildTaxonomyIndex
    \/ ComputeExportSet
    \/ SortExportSet
    \/ FormatForMylio

Spec == Init /\ [][Next]_vars

\* The string of the whole pipeline for a node array, a selection in its
\* iteration order and an includeAncestors option.
ExportText(nodes, selected, option) ==
    LET idx == buildTaxonomyIndex(nodes)
        sorted == sortByUserOrder(idx, computeExportSet(idx, selected, option))
    IN  formatForMylio(idx, sorted.ids, DEFAULT_SEPARATOR)

\* C8: the string produced by computeExportSet, sortByUserOrder and
\* formatForMylio is the same for every order of taxonomy.nodes given to
\* buildTaxonomyIndex and every iteration order of the selected ids.
C8_OutputIndependentOfInsertionOrder ==
    (output # NoOutput) =>
        \A nodes \in Perms(taxonomy) :
            \A selected \in Perms(selectedIds) :
                ExportText(nodes, selected,
                           IF closure = NoValue THEN "false" ELSE "true") = output

\* Three labels were output for a taxonomy in which two nodes share their
\* order value, and the sort changed the order of the export set.
C8_Witness ==
    /\ output # NoOutput
    /\ Len(sortedIds.ids) = MaxAttrNodes
    /\ sortedIds.ids # exportSet
    /\ \E i, j \in DOMAIN taxonomy :
          /\ i < j
          /\ taxonomy[i].order = taxonomy[j].order
          /\ taxonomy[i].parentId = taxonomy[j].parentId
          /\ taxonomy[i].label = taxonomy[j].label

---------------------------------------------------------------------------
(* Errors of sortByUserOrder (sort specification) *)

\* C11: sortByUserOrder throws, and returns no list, whenever the id set
\* given holds an id without entry in sortPathCache, whatever the size of
\* the set, a set of one id included.
C11_SortThrowsOnMissingId ==
    (/\ sortedIds.status # "none"
     /\ \E i \in DOMAIN sortInput : sortInput[i] \notin DOMAIN index.sortPathCache) =>
        sortedIds.status = "throws"

---------------------------------------------------------------------------
(* Formatter specification: formatForMylio called by a caller of its own   *)
(* on the index of every valid taxonomy of at most MaxExportNodes nodes    *)
(* with labels among "", "A1" and "A10", for every array of at most MaxSel *)
(* ids (ids repeated and a stale id among them) and for the separator      *)
(* omitted, empty, and ";".                                                *)

FormatLabels == {StrEmpty, StrA1, StrA10}

StrSemicolon == <<59>>           \* ";"

\* NULL is the argument omitted.
Separators == {NULL, StrEmpty, StrSemicolon}

\* Arrays of at most n elements of S.
SeqsUpTo(S, n) == UNION {[1..k -> S] : k \in 0..n}

InitFormat ==
    /\ \E n \in 0..MaxExportNodes :
          \E par \in Forests(n),
             labels \in [1..n -> FormatLabels] :
              taxonomy = MkTaxonomy(n, [i \in 1..n |-> PosId(i)], par, labels,
                                    [i \in 1..n |-> "tag"], [i \in 1..n |-> 0],
                                    [i \in 1..n |-> "undefined"])
    /\ Blank

FormatIds ==
    /\ index.status = "ok"
    /\ ~fmtCall.called
    /\ \E ids \in SeqsUpTo(TaxonomyIds \cup {StaleId}, MaxSel),
          separator \in Separators :
          /\ fmtCall' = [ids |-> ids, separator |-> separator, called |-> TRUE]
          /\ output' = formatForMylio(index, ids, SeparatorOrDefault(separator))
    /\ UNCHANGED <<cmpCall, taxonomy, index, selectedIds, closure, exportSet,
                   sortInput, sortedIds>>
    /\ UNCHANGED <<data, options, validation, jsonString, imported, exported,
                   reimported, orderInput, initialized,
                   normalized, store, call>>

NextFormat == BuildTaxonomyIndex \/ FormatIds

SpecFormat == InitFormat /\ [][NextFormat]_vars

\* The text for the first k ids of the call, built from the right: an absent
\* id adds nothing, the first present id adds its label, and every later
\* present id adds the separator and its label.
RECURSIVE LabelsJoined(_, _)
LabelsJoined(k, sep) ==
    IF k = 0 THEN <<>>
    ELSE LET id == fmtCall.ids[k]
             before == LabelsJoined(k - 1, sep)
         IN  IF id \notin TaxonomyIds THEN before
             ELSE IF \A j \in 1..(k - 1) : fmtCall.ids[j] \notin TaxonomyIds
                  THEN NodeOf(id).label
                  ELSE before \o sep \o NodeOf(id).label

\* C12: formatForMylio returns the labels of the ids present in byId, in the
\* order given, joined by the separator (", " when omitted); absent ids add
\* neither an entry nor a separator, and a list with no present id gives "".
C12_FormatJoinsPresentLabels ==
    fmtCall.called =>
        LET sep == IF fmtCall.separator = NULL THEN <<44, 32>> ELSE fmtCall.separator
            present == {i \in DOMAIN fmtCall.ids : fmtCall.ids[i] \in TaxonomyIds}
        IN  /\ output = LabelsJoined(Len(fmtCall.ids), sep)
            /\ (present = {}) => (output = <<>>)
            /\ (present # {}) =>
                  Len(output) = Len(sep) * (Cardinality(present) - 1)
                      + Len(Join([i \in DOMAIN fmtCall.ids |->
                                    IF i \in present THEN NodeOf(fmtCall.ids[i]).label
                                    ELSE <<>>], <<>>))

\* The separator was omitted and a stale id stood between two present ids:
\* the output is the two labels with one ", " between them.
C12_Witness ==
    /\ fmtCall.called
    /\ fmtCall.separator = NULL
    /\ Len(fmtCall.ids) = 3
    /\ fmtCall.ids[2] = StaleId
    /\ fmtCall.ids[1] \in TaxonomyIds
    /\ fmtCall.ids[3] \in TaxonomyIds
    /\ output = StrA10 \o <<44, 32>> \o StrA1

---------------------------------------------------------------------------
(* Unvalidated index specification: buildTaxonomyIndex on every node array *)
(* of at most MaxAttrNodes nodes whose ids are drawn with repetition and   *)
(* whose parentIds are null, an id of the array or an id of no node, so    *)
(* that duplicate ids, orphans and parent cycles all occur.                *)

InitIndexAny ==
    /\ \E n \in 0..MaxAttrNodes :
          \E ids \in [1..n -> {PosId(k) : k \in 1..MaxAttrNodes}],
             parents \in [1..n -> {NULL, StaleId} \cup {PosId(k) : k \in 1..MaxAttrNodes}] :
              taxonomy = [i \in 1..n |->
                             TagNode(ids[i], StrA1, parents[i], "tag", 0, "undefined")]
    /\ Blank

NextIndexAny == BuildTaxonomyIndex

SpecIndexAny == InitIndexAny /\ [][NextIndexAny]_vars

\* A node of the taxonomy held has a non-null parentId that names no node.
HasOrphan ==
    \E i \in DOMAIN taxonomy :
        taxonomy[i].parentId # NULL /\ taxonomy[i].parentId \notin TaxonomyIds

UniqueIds ==
    \A i, j \in DOMAIN taxonomy : (taxonomy[i].id = taxonomy[j].id) => (i = j)

\* The id reached from id by k parent steps (NULL beyond a root or an orphan).
RECURSIVE ParentStep(_, _)
ParentStep(id, k) ==
    IF k = 0 \/ id = NULL \/ id \notin TaxonomyIds THEN (IF k = 0 THEN id ELSE NULL)
    ELSE ParentStep(NodeOf(id).parentId, k - 1)

\* Some node comes back to itself along the parent chain.
HasCycle ==
    \E id \in TaxonomyIds : \E k \in 1..Len(taxonomy) : ParentStep(id, k) = id

\* C13 as claimed: buildTaxonomyIndex throws and returns no index whenever
\* the taxonomy holds a node whose non-null parentId names no node.
C13_OrphanThrows ==
    (index.status # "none" /\ HasOrphan) => (index.status = "throws")

\* C13 amended: buildTaxonomyIndex throws and returns no index (no sort
\* path, partial or whole) whenever the taxonomy has pairwise distinct ids,
\* no cycle in any parent chain, and a node whose non-null parentId names no
\* node.
C13_OrphanThrowsWithoutCycleOrDuplicate ==
    (index.status # "none" /\ HasOrphan /\ UniqueIds /\ ~HasCycle) =>
        (index.status = "throws" /\ index.sortPathCache = <<>>)

\* The build threw on a taxonomy of distinct ids without cycle whose first
\* node is the child of an orphan.
C13_Witness ==
    /\ index.status = "throws"
    /\ UniqueIds
    /\ ~HasCycle
    /\ Len(taxonomy) = MaxAttrNodes
    /\ taxonomy[1].parentId = taxonomy[2].id
    /\ taxonomy[2].parentId = StaleId

---------------------------------------------------------------------------
(* JavaScript values, as JSON.parse yields them *)

\* A value carries its type in t.  A number is the integer n (q = "int"),
\* n + 0.5 (q = "half"), negative zero or Infinity.  An object is a function
\* from its own property names to values: a property that is absent reads as
\* undefined.
JUndefined == [t |-> "undefined"]
JNull      == [t |-> "null"]
JBool(b)   == [t |-> "boolean", b |-> b]
JStr(s)    == [t |-> "string", s |-> s]
JNum(n)    == [t |-> "number", n |-> n, q |-> "int"]
JHalf(n)   == [t |-> "number", n |-> n, q |-> "half"]
JNegZero   == [t |-> "number", n |-> 0, q |-> "negzero"]
JInfinity  == [t |-> "number", n |-> 0, q |-> "inf"]
JArr(a)    == [t |-> "array", a |-> a]
JObj(f)    == [t |-> "object", f |-> f]

\* obj.name
Get(v, name) ==
    IF v.t = "object" /\ name \in DOMAIN v.f THEN v.f[name] ELSE JUndefined

\* !!v
Truthy(v) ==
    CASE v.t \in {"undefined", "null"} -> FALSE
      [] v.t = "boolean" -> v.b
      [] v.t = "string" -> v.s # <<>>
      [] v.t = "number" -> ~(v.q = "negzero" \/ (v.q = "int" /\ v.n = 0))
      [] OTHER -> TRUE

\* typeof v === 'object'
TypeofObject(v) == v.t \in {"null", "object", "array"}

\* Number.isInteger(v) for a number v
IsInteger(v) == v.q \in {"int", "negzero"}

\* v ?? null
OrNull(v) == IF v.t = "undefined" THEN JNull ELSE v

\* Decimal digits of a natural number, as code units.
RECURSIVE Digits(_)
Digits(n) == IF n < 10 THEN <<48 + n>> ELSE Digits(n \div 10) \o <<48 + (n % 10)>>

\* String.prototype.split on one code unit.
RECURSIVE Split(_, _)
Split(str, ch) ==
    IF \A i \in DOMAIN str : str[i] # ch THEN <<str>>
    ELSE LET k == CHOOSE i \in DOMAIN str :
                      str[i] = ch /\ \A j \in 1..(i - 1) : str[j] # ch
         IN  <<SubSeq(str, 1, k - 1)>> \o Split(SubSeq(str, k + 1, Len(str)), ch)

RECURSIVE DecimalValue(_)
DecimalValue(str) ==
    IF str = <<>> THEN 0
    ELSE 10 * DecimalValue(SubSeq(str, 1, Len(str) - 1)) + (str[Len(str)] - 48)

\* Number(str) for a string of decimal digits (the empty string gives 0) and
\* for a string with a code unit that no number holds (NaN).
ToNumber(str) ==
    IF \A i \in DOMAIN str : str[i] \in 48..57
    THEN [nan |-> FALSE, n |-> DecimalValue(str)]
    ELSE [nan |-> TRUE, n |-> 0]

---------------------------------------------------------------------------
(* io/schema.ts *)

SCHEMA_VERSION == <<49, 46, 51, 46, 49>>   \* '1.3.1'

KindFolder == <<102, 111, 108, 100, 101, 114>>   \* 'folder'
KindTag    == <<116, 97, 103>>                  \* 'tag'

PathSchemaVersion == <<115, 99, 104, 101, 109, 97, 86, 101, 114, 115, 105, 111, 110>>
PathNodes     == <<110, 111, 100, 101, 115>>           \* 'nodes'
PathId        == <<46, 105, 100>>                      \* '.id'
PathLabel     == <<46, 108, 97, 98, 101, 108>>        \* '.label'
PathParentId  == <<46, 112, 97, 114, 101, 110, 116, 73, 100>>
PathKind      == <<46, 107, 105, 110, 100>>           \* '.kind'
PathOrder     == <<46, 111, 114, 100, 101, 114>>      \* '.order'

StrUnknown == <<40, 117, 110, 107, 110, 111, 119, 110, 41>>

\* `nodes[${key}]`, key the digits of an array index or a node id
NodePath(key) == PathNodes \o <<91>> \o key \o <<93>>

\* A ValidationError; the message is its template and the values put in it.
ValidationError(path, template, args, code) ==
    [path |-> path, message |-> [template |-> template, args |-> args], code |-> code]

\* Lines 66-73: the data is no object.
NotObjectErrors ==
    <<ValidationError(<<>>, "Taxonomy must be an object", <<>>, "INVALID_TYPE")>>

\* Lines 78-101: schemaVersion, compatible when major and minor agree.
SchemaVersionErrors(obj) ==
    LET sv == Get(obj, "schemaVersion")
    IN  IF ~Truthy(sv)
        THEN <<ValidationError(PathSchemaVersion, "Missing schemaVersion", <<>>,
                               "MISSING_FIELD")>>
        ELSE IF sv.t # "string"
        THEN <<ValidationError(PathSchemaVersion, "schemaVersion must be a string", <<>>,
                               "INVALID_TYPE")>>
        ELSE LET parts == Split(sv.s, 46)
                 expected == Split(SCHEMA_VERSION, 46)
                 Differs(k) == \/ Len(parts) < k
                               \/ ToNumber(parts[k]).nan
                               \/ ToNumber(parts[k]).n # ToNumber(expected[k]).n
             IN  IF Differs(1) \/ Differs(2)
                 THEN <<ValidationError(PathSchemaVersion, "Incompatible schema version",
                                        <<sv, JStr(SCHEMA_VERSION)>>,
                                        "INVALID_SCHEMA_VERSION")>>
                 ELSE <<>>

\* Lines 127-211: one turn of the loop over the nodes, i the array index
\* (from 0).  st holds errors, nodeIds, and nodeMap as its keys in insertion
\* order and its values.
ValidateNode(st, node, i) ==
    LET path == NodePath(Digits(i))
        id == Get(node, "id")
        label == Get(node, "label")
        parentId == Get(node, "parentId")
        kind == Get(node, "kind")
        order == Get(node, "order")
    IN  IF ~Truthy(node) \/ ~TypeofObject(node)
        THEN [st EXCEPT !.errors = Append(@,
                 ValidationError(path, "Node must be an object", <<>>, "INVALID_TYPE"))]
        ELSE IF id.t # "string" \/ ~Truthy(id)
        THEN [st EXCEPT !.errors = Append(@,
                 ValidationError(path \o PathId, "id must be a non-empty string", <<>>,
                                 "MISSING_FIELD"))]
        ELSE [errors |-> st.errors
                  \o (IF label.t # "string"
                      THEN <<ValidationError(path \o PathLabel, "label must be a string",
                                             <<>>, "MISSING_FIELD")>>
                      ELSE <<>>)
                  \o (IF InSeq(id.s, st.nodeIds)
                      THEN <<ValidationError(path \o PathId, "Duplicate node ID", <<id>>,
                                             "DUPLICATE_ID")>>
                      ELSE <<>>)
                  \o (IF parentId.t # "null" /\ parentId.t # "string"
                      THEN <<ValidationError(path \o PathParentId,
                                             "parentId must be null or a string", <<>>,
                                             "INVALID_TYPE")>>
                      ELSE <<>>)
                  \o (IF kind # JStr(KindFolder) /\ kind # JStr(KindTag)
                      THEN <<ValidationError(path \o PathKind,
                                             "kind must be folder or tag", <<>>,
                                             "INVALID_KIND")>>
                      ELSE <<>>)
                  \o (IF (order.t # "number" \/ ~IsInteger(order)) /\ order.t # "undefined"
                      THEN <<ValidationError(path \o PathOrder, "order must be an integer",
                                             <<>>, "INVALID_ORDER")>>
                      ELSE <<>>)
                  \o (IF label.t = "string" /\ InSeq(44, label.s)
                      THEN <<ValidationError(path \o PathLabel,
                                             "label must not contain comma", <<>>,
                                             "FORBIDDEN_CHAR")>>
                      ELSE <<>>),
              nodeIds |-> SetAdd(st.nodeIds, id.s),
              mapKeys |-> SetAdd(st.mapKeys, id.s),
              nodeMap |-> [k \in DOMAIN st.nodeMap \cup {id.s} |->
                              IF k = id.s THEN node ELSE st.nodeMap[k]]]

RECURSIVE ValidateNodes(_, _, _)
ValidateNodes(st, nodes, i) ==
    IF i >= Len(nodes) THEN st
    ELSE ValidateNodes(ValidateNode(st, nodes[i + 1], i), nodes, i + 1)

\* nodeMap.has(v) for any value v
MapHas(nodeMap, v) == v.t = "string" /\ v.s \in DOMAIN nodeMap

\* Lines 214-222: orphans, over nodeMap in insertion order.
RECURSIVE OrphanErrors(_, _)
OrphanErrors(nodeMap, keys) ==
    IF keys = <<>> THEN <<>>
    ELSE LET id == Head(keys)
             parentId == Get(nodeMap[id], "parentId")
         IN  (IF parentId.t # "null" /\ ~MapHas(nodeMap, parentId)
              THEN <<ValidationError(NodePath(id) \o PathParentId, "Orphan node",
                                     <<parentId>>, "ORPHAN_NODE")>>
              ELSE <<>>)
             \o OrphanErrors(nodeMap, Tail(keys))

\* Lines 229-241: the walk from startId; visited grows at each turn, so the
\* loop ends after at most one turn per key of nodeMap and one more.
RECURSIVE CycleWalk(_, _, _, _)
CycleWalk(nodeMap, startId, currentId, visited) ==
    IF currentId.t = "null" THEN <<>>
    ELSE IF currentId \in visited
    THEN <<ValidationError(NodePath(startId), "Circular reference detected",
                           <<currentId>>, "CIRCULAR_REF")>>
    ELSE CycleWalk(nodeMap, startId,
                   IF MapHas(nodeMap, currentId)
                   THEN OrNull(Get(nodeMap[currentId.s], "parentId"))
                   ELSE JNull,
                   visited \cup {currentId})

\* Mutant of CycleErrors: only a node that is its own parent is reported.
CycleErrorsSelfOnly(nodeMap, keys) ==
    LET own == SelectSeq(keys, LAMBDA k : Get(nodeMap[k], "parentId") = JStr(k))
    IN  [i \in DOMAIN own |->
            ValidationError(NodePath(own[i]), "Circular reference detected",
                            <<JStr(own[i])>>, "CIRCULAR_REF")]

\* Lines 225-242
RECURSIVE CycleErrors(_, _)
CycleErrors(nodeMap, keys) ==
    IF keys = <<>> THEN <<>>
    ELSE CycleWalk(nodeMap, Head(keys), JStr(Head(keys)), {})
         \o CycleErrors(nodeMap, Tail(keys))

\* Lines 248-255: the ids of the nodes of nodeMap whose parentId is the id
\* given, in insertion order.
ChildrenOfId(nodeMap, keys, id) ==
    SelectSeq(keys, LAMBDA k : Get(nodeMap[k], "parentId") = JStr(id))

\* Mutant of TagChildErrors: one error for the tag, whatever its children.
TagChildErrorsOncePerTag(nodeMap, id, children) ==
    IF children = <<>> THEN <<>>
    ELSE <<ValidationError(NodePath(id), "Tags cannot have children",
                           <<Get(nodeMap[id], "label"), JStr(id)>>, "TAG_HAS_CHILDREN")>>

\* Lines 263-272: one error per child of the tag node id.
TagChildErrors(nodeMap, id, children) ==
    [c \in DOMAIN children |->
        LET childLabel == IF Get(nodeMap[children[c]], "label").t \in {"undefined", "null"}
                          THEN JStr(StrUnknown)
                          ELSE Get(nodeMap[children[c]], "label")
        IN  ValidationError(NodePath(children[c]), "Tags cannot have children",
                            <<childLabel, JStr(children[c]),
                              Get(nodeMap[id], "label"), JStr(id)>>,
                            "TAG_HAS_CHILDREN")]

\* Lines 258-275
RECURSIVE TagLeafErrors(_, _, _)
TagLeafErrors(nodeMap, keys, rest) ==
    IF rest = <<>> THEN <<>>
    ELSE (IF Get(nodeMap[Head(rest)], "kind") = JStr(KindTag)
          THEN TagChildErrors(nodeMap, Head(rest), ChildrenOfId(nodeMap, keys, Head(rest)))
          ELSE <<>>)
         \o TagLeafErrors(nodeMap, keys, Tail(rest))

\* options.enforceTagLeaf is "undefined" when omitted, and defaults to true.
EnforceTagLeaf(option) == IF option = "undefined" THEN TRUE ELSE option = "true"

ValidationResult(errors) ==
    [status |-> "returned", valid |-> errors = <<>>, errors |-> errors]

validateTaxonomy(value, option) ==
    IF ~Truthy(value) \/ ~TypeofObject(value) THEN ValidationResult(NotObjectErrors)
    ELSE LET versionErrors == SchemaVersionErrors(value)
             nodes == Get(value, "nodes")
         IN  IF ~Truthy(nodes)
             THEN ValidationResult(Append(versionErrors,
                      ValidationError(PathNodes, "Missing nodes array", <<>>,
                                      "MISSING_FIELD")))
             ELSE IF nodes.t # "array"
             THEN ValidationResult(Append(versionErrors,
                      ValidationError(PathNodes, "nodes must be an array", <<>>,
                                      "INVALID_TYPE")))
             ELSE LET st == ValidateNodes([errors |-> versionErrors, nodeIds |-> <<>>,
                                           mapKeys |-> <<>>, nodeMap |-> <<>>],
                                          nodes.a, 0)
                  IN  ValidationResult(
                          st.errors
                          \o OrphanErrors(st.nodeMap, st.mapKeys)
                          \o CycleErrors(st.nodeMap, st.mapKeys)
                          \o (IF EnforceTagLeaf(option)
                              THEN TagLeafErrors(st.nodeMap, st.mapKeys, st.mapKeys)
                              ELSE <<>>))

---------------------------------------------------------------------------
(* Validation specification: validateTaxonomy, with enforceTagLeaf omitted,  *)
(* true and false, on two families of data of at most MaxRawNodes nodes.     *)
(* Structure: nodes with sound fields whose ids are empty or drawn with      *)
(* repetition and whose parentIds are null, an id or an id of no node        *)
(* (duplicates, orphans, cycles, tags with children).  Rules: root nodes     *)
(* that break any set of the per-node rules, under a compatible and an       *)
(* incompatible schemaVersion, and array entries that are no objects.        *)

\* Largest number of nodes of the data given to validateTaxonomy.
MaxRawNodes == 2

StrVersionOther == <<50, 46, 48, 46, 48>>   \* '2.0.0'
StrVersionPatch == <<49, 46, 51, 46, 48>>   \* '1.3.0'
StrComma        == <<65, 44, 49>>         \* 'A,1'
StrOther        == <<120>>                \* 'x'

LeafOptions == {"undefined", "true", "false"}

\* An object with the properties of fields that are not undefined.
RawObject(fields) ==
    JObj([k \in {name \in DOMAIN fields : fields[name] # JUndefined} |-> fields[k]])

RawNode(id, label, parentId, kind, order) ==
    RawObject([id |-> id, label |-> label, parentId |-> parentId, kind |-> kind,
               order |-> order])

RawTaxonomy(schemaVersion, nodes) ==
    RawObject([schemaVersion |-> schemaVersion, nodes |-> JArr(nodes)])

RawIds == {PosId(k) : k \in 1..MaxRawNodes}

StructureNodes ==
    {RawNode(JStr(id), JStr(StrA1), parentId, JStr(kind), JNum(0)) :
        id \in RawIds \cup {StrEmpty},
        parentId \in {JNull, JStr(StaleId)} \cup {JStr(p) : p \in RawIds},
        kind \in {KindFolder, KindTag}}

RuleNodes ==
    {JNull} \cup
    {RawNode(id, label, parentId, kind, order) :
        id \in {JStr(StrEmpty), JStr(PosId(1))},
        label \in {JUndefined, JStr(StrA1), JStr(StrComma)},
        parentId \in {JNull, JNum(1)},
        kind \in {JStr(KindFolder), JStr(StrOther)},
        order \in {JUndefined, JHalf(1)}}

InitValidate ==
    /\ \E n \in 0..MaxRawNodes :
          \/ \E nodes \in [1..n -> StructureNodes] :
                data = RawTaxonomy(JStr(StrVersionPatch), nodes)
          \/ \E nodes \in [1..n -> RuleNodes],
                version \in {SCHEMA_VERSION, StrVersionOther} :
                data = RawTaxonomy(JStr(version), nodes)
    /\ taxonomy = <<>>
    /\ cmpCall = NoCall
    /\ index = NoIndex
    /\ selectedIds = NoValue
    /\ closure = NoValue
    /\ exportSet = NoValue
    /\ sortInput = NoValue
    /\ sortedIds = [status |-> "none", ids |-> NoValue]
    /\ output = NoOutput
    /\ fmtCall = NoFmtCall
    /\ options = "undefined"
    /\ validation = NoValidation
    /\ jsonString = NoString
    /\ imported = NoImport
    /\ exported = NoString
    /\ reimported = NoImport
    /\ orderInput = NoData
    /\ initialized = NoData
    /\ normalized = NoData
    /\ BlankStore

ValidateTaxonomy ==
    /\ data # NoData
    /\ validation.status = "none"
    /\ \E option \in LeafOptions :
          /\ options' = option
          /\ validation' = validateTaxonomy(data, option)
    /\ UNCHANGED <<cmpCall, taxonomy, index, selectedIds, closure, exportSet,
                   sortInput, sortedIds, output>>
    /\ UNCHANGED <<fmtCall, data, jsonString, imported, exported, reimported,
                   orderInput, initialized, normalized, store, call>>

NextValidate == ValidateTaxonomy

SpecValidate == InitValidate /\ [][NextValidate]_vars

\* The node array of the data held.
DataNodes == Get(data, "nodes").a

\* The ids of the nodes of the data held (their id values).
DataIds == {Get(DataNodes[i], "id") : i \in DOMAIN DataNodes}

\* The node of the data held that carries the id value (ids are unique).
DataNodeOf(id) == DataNodes[CHOOSE i \in DOMAIN DataNodes : Get(DataNodes[i], "id") = id]

\* The value reached from an id value by k parentId steps.
RECURSIVE DataParentStep(_, _)
DataParentStep(id, k) ==
    IF k = 0 THEN id
    ELSE IF id \notin DataIds THEN JNull
    ELSE DataParentStep(Get(DataNodeOf(id), "parentId"), k - 1)

\* C14: data reported valid satisfies the taxonomy invariant: every id is a
\* non-empty string, the ids are pairwise distinct, every parentId is null or
\* the id of a node, no parent chain comes back to its start, no label holds
\* a comma, and every kind is 'folder' or 'tag'.
C14_ValidImpliesInvariant ==
    (validation.status = "returned" /\ validation.valid) =>
        /\ Get(data, "nodes").t = "array"
        /\ \A i \in DOMAIN DataNodes :
              LET node == DataNodes[i]
              IN  /\ node.t = "object"
                  /\ Get(node, "id").t = "string"
                  /\ Len(Get(node, "id").s) > 0
                  /\ \A j \in DOMAIN DataNodes :
                        (Get(DataNodes[j], "id") = Get(node, "id")) => (i = j)
                  /\ \/ Get(node, "parentId") = JNull
                     \/ Get(node, "parentId") \in DataIds
                  /\ Get(node, "label").t = "string"
                  /\ \A c \in DOMAIN Get(node, "label").s : Get(node, "label").s[c] # 44
                  /\ Get(node, "kind") \in {JStr(KindFolder), JStr(KindTag)}
                  /\ \A k \in 1..Len(DataNodes) :
                        DataParentStep(Get(node, "id"), k) # Get(node, "id")

\* Data of MaxRawNodes nodes, the last the child of a tag, was reported
\* valid with the leaf rule off.
C14_Witness ==
    /\ validation.status = "returned"
    /\ validation.valid
    /\ options = "false"
    /\ Len(DataNodes) = MaxRawNodes
    /\ Get(DataNodes[Len(DataNodes)], "parentId") = Get(DataNodes[1], "id")
    /\ Get(DataNodes[1], "kind") = JStr(KindTag)

\* An error of the code and the path given is among the errors returned.
Reported(path, code) ==
    \E e \in DOMAIN validation.errors :
        validation.errors[e].path = path /\ validation.errors[e].code = code

\* C15: when data.nodes is an array, the errors returned hold an entry for
\* every node and every per-node rule the node breaks (no object, id, label
\* type, duplicate id, parentId type, kind, order, comma in label), whatever
\* else was reported before and however many rules the node breaks.
C15_AllRuleViolationsReported ==
    (validation.status = "returned" /\ Get(data, "nodes").t = "array") =>
        \A i \in DOMAIN DataNodes :
            LET node == DataNodes[i]
                path == NodePath(Digits(i - 1))
                id == Get(node, "id")
                label == Get(node, "label")
                parentId == Get(node, "parentId")
                order == Get(node, "order")
            IN  IF node.t # "object" THEN Reported(path, "INVALID_TYPE")
                ELSE
                /\ (id.t # "string" \/ id.s = <<>>) => Reported(path \o PathId, "MISSING_FIELD")
                /\ (label.t # "string") => Reported(path \o PathLabel, "MISSING_FIELD")
                /\ (/\ id.t = "string"
                    /\ id.s # <<>>
                    /\ \E j \in 1..(i - 1) : Get(DataNodes[j], "id") = id) =>
                        Reported(path \o PathId, "DUPLICATE_ID")
                /\ (parentId.t \notin {"null", "string"}) =>
                        Reported(path \o PathParentId, "INVALID_TYPE")
                /\ (Get(node, "kind") \notin {JStr(KindFolder), JStr(KindTag)}) =>
                        Reported(path \o PathKind, "INVALID_KIND")
                /\ (order.t # "undefined" /\ (order.t # "number" \/ order.q \notin {"int", "negzero"})) =>
                        Reported(path \o PathOrder, "INVALID_ORDER")
                /\ (label.t = "string" /\ \E c \in DOMAIN label.s : label.s[c] = 44) =>
                        Reported(path \o PathLabel, "FORBIDDEN_CHAR")

\* The same statement for the nodes that are objects with a non-empty
\* string id: it holds, so only a node without such an id hides its other
\* broken rules.
C15_ReportedForNodesWithId ==
    (validation.status = "returned" /\ Get(data, "nodes").t = "array") =>
        \A i \in DOMAIN DataNodes :
            LET node == DataNodes[i]
                path == NodePath(Digits(i - 1))
                id == Get(node, "id")
                label == Get(node, "label")
                parentId == Get(node, "parentId")
                order == Get(node, "order")
            IN  IF node.t # "object" THEN Reported(path, "INVALID_TYPE")
                ELSE IF id.t # "string" \/ id.s = <<>>
                THEN Reported(path \o PathId, "MISSING_FIELD")
                ELSE
                /\ (label.t # "string") => Reported(path \o PathLabel, "MISSING_FIELD")
                /\ (\E j \in 1..(i - 1) : Get(DataNodes[j], "id") = id) =>
                        Reported(path \o PathId, "DUPLICATE_ID")
                /\ (parentId.t \notin {"null", "string"}) =>
                        Reported(path \o PathParentId, "INVALID_TYPE")
                /\ (Get(node, "kind") \notin {JStr(KindFolder), JStr(KindTag)}) =>
                        Reported(path \o PathKind, "INVALID_KIND")
                /\ (order.t # "undefined" /\ (order.t # "number" \/ order.q \notin {"int", "negzero"})) =>
                        Reported(path \o PathOrder, "INVALID_ORDER")
                /\ (label.t = "string" /\ \E c \in DOMAIN label.s : label.s[c] = 44) =>
                        Reported(path \o PathLabel, "FORBIDDEN_CHAR")

---------------------------------------------------------------------------
(* JSON text *)

\* A string given to JSON.parse is either not JSON or the text of a value:
\* its indentation and the tree of the value, in which a number is the
\* literal written (its code units) and nothing is undefined.
NotJson == [t |-> "text", wellFormed |-> FALSE, indent |-> 0, tree |-> JNull]

JsonText(tree, indent) ==
    [t |-> "text", wellFormed |-> TRUE, indent |-> indent, tree |-> tree]

JLiteral(chars) == [t |-> "literal", s |-> chars]

\* The first position of a code unit of cs in str, or 0.
FirstOf(str, cs) ==
    IF \A i \in DOMAIN str : str[i] \notin cs THEN 0
    ELSE CHOOSE i \in DOMAIN str : str[i] \in cs /\ \A j \in 1..(i - 1) : str[j] \notin cs

RECURSIVE Pow10(_)
Pow10(e) == IF e = 0 THEN 1 ELSE 10 * Pow10(e - 1)

\* The number a JSON number literal denotes, for the literals -?D, -?D.0,
\* -?D.5 and De+?E (D and E digit strings, E either above 308 or at most 9):
\* a zero mantissa behind a minus sign is -0, and a literal beyond the range
\* of a double is Infinity.
ParseNumber(chars) ==
    LET neg == chars[1] = 45
        body == IF neg THEN Tail(chars) ELSE chars
        ePos == FirstOf(body, {69, 101})
        mantissa == IF ePos = 0 THEN body ELSE SubSeq(body, 1, ePos - 1)
        expPart == IF ePos = 0 THEN <<>> ELSE SubSeq(body, ePos + 1, Len(body))
        expDigits == IF expPart # <<>> /\ expPart[1] = 43 THEN Tail(expPart) ELSE expPart
        expVal == DecimalValue(expDigits)
        dot == FirstOf(mantissa, {46})
        intVal == DecimalValue(IF dot = 0 THEN mantissa ELSE SubSeq(mantissa, 1, dot - 1))
        fraction == IF dot = 0 THEN <<>> ELSE SubSeq(mantissa, dot + 1, Len(mantissa))
        fracZero == \A i \in DOMAIN fraction : fraction[i] = 48
    IN  IF intVal = 0 /\ fracZero THEN (IF neg THEN JNegZero ELSE JNum(0))
        ELSE IF expVal > 308 THEN JInfinity
        ELSE IF fracZero THEN JNum((IF neg THEN -1 ELSE 1) * intVal * Pow10(expVal))
        ELSE JHalf(IF neg THEN -intVal - 1 ELSE intVal)

\* JSON.parse of a well-formed text.
RECURSIVE JsonParse(_)
JsonParse(tree) ==
    CASE tree.t = "literal" -> ParseNumber(tree.s)
      [] tree.t = "array" -> JArr([i \in DOMAIN tree.a |-> JsonParse(tree.a[i])])
      [] tree.t = "object" -> JObj([k \in DOMAIN tree.f |-> JsonParse(tree.f[k])])
      [] OTHER -> tree

\* The literal JSON.stringify writes for a finite number: -0 is written 0.
NumberLiteral(v) ==
    LET abs == IF v.n < 0 THEN -v.n ELSE v.n
    IN  CASE v.q = "negzero" -> JLiteral(<<48>>)
          [] v.q = "int" -> JLiteral((IF v.n < 0 THEN <<45>> ELSE <<>>) \o Digits(abs))
          [] v.q = "half" ->
                JLiteral(IF v.n < 0 THEN <<45>> \o Digits(abs - 1) \o <<46, 53>>
                         ELSE Digits(abs) \o <<46, 53>>)

\* The tree JSON.stringify writes for a value that is not undefined: a number
\* that is not finite is written null, an undefined property is left out and
\* an undefined array element is written null.
RECURSIVE JsonStringify(_)
JsonStringify(v) ==
    CASE v.t = "number" -> IF v.q = "inf" THEN JNull ELSE NumberLiteral(v)
      [] v.t = "array" ->
            JArr([i \in DOMAIN v.a |->
                     IF v.a[i].t = "undefined" THEN JNull ELSE JsonStringify(v.a[i])])
      [] v.t = "object" ->
            JObj([k \in {name \in DOMAIN v.f : v.f[name].t # "undefined"} |->
                     JsonStringify(v.f[k])])
      [] OTHER -> v

---------------------------------------------------------------------------
(* io/order-utils.ts, io/import.ts, io/export.ts *)

\* { ...obj, [name]: value }; spreading undefined or null gives no property.
SetProp(obj, name, value) ==
    LET f == IF obj.t = "object" THEN obj.f ELSE <<>>
    IN  JObj([k \in DOMAIN f \cup {name} |-> IF k = name THEN value ELSE f[k]])

\* The Map byParent: each parentId of the list mapped to its nodes, pushed
\* in array order. A node is held as its position in the list, the nodes
\* of a list being distinct objects.
byParent(nodes) ==
    [p \in {Get(nodes[j], "parentId") : j \in DOMAIN nodes} |->
        LET OfParent(j) == Get(nodes[j], "parentId") = p
        IN  SelectSeq([j \in DOMAIN nodes |-> j], OfParent)]

\* siblings.indexOf(node), with siblings = byParent.get(node.parentId) || [],
\* and the order assigned from it: index >= 0 ? index : 0.
SiblingIndex(nodes, i) ==
    LET groups == byParent(nodes)
        parentId == Get(nodes[i], "parentId")
        siblings == IF parentId \in DOMAIN groups THEN groups[parentId] ELSE <<>>
        found == IF \E k \in DOMAIN siblings : siblings[k] = i
                 THEN IndexOf(i, siblings) - 1
                 ELSE -1
    IN  IF found >= 0 THEN found ELSE 0

\* Mutant of initializeOrder: a node without order gets its array index.
initializeOrderByArrayIndex(tax) ==
    LET nodes == Get(tax, "nodes").a
    IN  SetProp(tax, "nodes",
            JArr([i \in DOMAIN nodes |->
                     IF Get(nodes[i], "order").t \in {"undefined", "null"}
                     THEN SetProp(nodes[i], "order", JNum(i - 1))
                     ELSE nodes[i]]))

initializeOrder(tax) ==
    LET nodes == Get(tax, "nodes").a
    IN  SetProp(tax, "nodes",
            JArr([i \in DOMAIN nodes |->
                     IF Get(nodes[i], "order").t \in {"undefined", "null"}
                     THEN SetProp(nodes[i], "order", JNum(SiblingIndex(nodes, i)))
                     ELSE nodes[i]]))

\* node.order ?? 0, for an order that is absent, null or an integer.
OrderOrZero(node) ==
    LET order == Get(node, "order")
    IN  IF order.t \in {"undefined", "null"} THEN 0 ELSE order.n

\* siblings.sort((a, b) => (a.order ?? 0) - (b.order ?? 0)) on a group held
\* as positions of the node list: stable, as for SortNodes.
RECURSIVE InsertByOrder(_, _, _)
InsertByOrder(nodes, sorted, j) ==
    IF sorted = <<>> THEN <<j>>
    ELSE IF OrderOrZero(nodes[j]) - OrderOrZero(nodes[Head(sorted)]) < 0
         THEN <<j>> \o sorted
    ELSE <<Head(sorted)>> \o InsertByOrder(nodes, Tail(sorted), j)

\* Mutant of SortByOrder: the group is sorted by order descending.
SortByOrderDescending(nodes, siblings) ==
    LET RECURSIVE Ins(_, _)
        Ins(sorted, j) ==
            IF sorted = <<>> THEN <<j>>
            ELSE IF OrderOrZero(nodes[j]) - OrderOrZero(nodes[Head(sorted)]) > 0
                 THEN <<j>> \o sorted
            ELSE <<Head(sorted)>> \o Ins(Tail(sorted), j)
        RECURSIVE Sort(_)
        Sort(q) ==
            IF q = <<>> THEN <<>>
            ELSE Ins(Sort(SubSeq(q, 1, Len(q) - 1)), q[Len(q)])
    IN  Sort(siblings)

RECURSIVE SortByOrder(_, _)
SortByOrder(nodes, siblings) ==
    IF siblings = <<>> THEN <<>>
    ELSE InsertByOrder(nodes, SortByOrder(nodes, SubSeq(siblings, 1, Len(siblings) - 1)),
                       siblings[Len(siblings)])

\* The orderMap.set(node.id, index) calls of normalizeOrder in the order
\* made: group after group in the key order of byParent, and in a group
\* node after node in sorted order.
RECURSIVE OrderMapSets(_, _, _)
OrderMapSets(nodes, groups, groupKeys) ==
    IF groupKeys = <<>> THEN <<>>
    ELSE LET siblings == SortByOrder(nodes, groups[Head(groupKeys)])
         IN  [k \in DOMAIN siblings |->
                 [id |-> Get(nodes[siblings[k]], "id"), order |-> k - 1]]
             \o OrderMapSets(nodes, groups, Tail(groupKeys))

\* orderMap.get(id): the value of the last set() of the id (every id of the
\* list has one).
OrderMapGet(sets, id) ==
    LET last == CHOOSE k \in DOMAIN sets :
                    /\ sets[k].id = id
                    /\ \A m \in DOMAIN sets : sets[m].id = id => m <= k
    IN  sets[last].order

normalizeOrder(tax) ==
    LET nodes == Get(tax, "nodes").a
        groupKeys == KeysOf([j \in DOMAIN nodes |-> Get(nodes[j], "parentId")])
        orderMap == OrderMapSets(nodes, byParent(nodes), groupKeys)
    IN  SetProp(tax, "nodes",
            JArr([i \in DOMAIN nodes |->
                     SetProp(nodes[i], "order",
                             JNum(OrderMapGet(orderMap, Get(nodes[i], "id"))))]))

\* An ImportResult; taxonomy and errors are undefined when left out.
ImportResult(success, tax, errors) ==
    [status |-> "returned", success |-> success, taxonomy |-> tax, errors |-> errors]

\* Mutant of importTaxonomy: JSON.parse is called outside the try block.
importTaxonomyNoCatch(text) ==
    IF ~text.wellFormed
    THEN [status |-> "throws", success |-> FALSE, taxonomy |-> JUndefined, errors |-> <<>>]
    ELSE LET value == JsonParse(text.tree)
             result == validateTaxonomy(value, "undefined")
         IN  IF ~result.valid
             THEN ImportResult(FALSE, JUndefined, result.errors)
             ELSE ImportResult(TRUE, initializeOrder(value), <<>>)

importTaxonomy(text) ==
    IF ~text.wellFormed
    THEN ImportResult(FALSE, JUndefined,
             <<ValidationError(<<>>, "Invalid JSON", <<>>, "INVALID_TYPE")>>)
    ELSE LET value == JsonParse(text.tree)
             result == validateTaxonomy(value, "undefined")
         IN  IF ~result.valid
             THEN ImportResult(FALSE, JUndefined, result.errors)
             ELSE ImportResult(TRUE,
                      initializeOrder(
                          IF ~Truthy(Get(value, "schemaVersion"))
                          THEN SetProp(value, "schemaVersion", JStr(SCHEMA_VERSION))
                          ELSE value),
                      <<>>)

\* ExportOptions: pretty defaults to true and includeMetaTimestamp to false;
\* now is new Date().toISOString().
Pretty(option) == IF option = "undefined" THEN TRUE ELSE option = "true"

IncludeMetaTimestamp(option) == IF option = "undefined" THEN FALSE ELSE option = "true"

\* Mutant of exportTaxonomy: only the core fields of a node are written.
exportTaxonomyCoreFields(tax, pretty, includeMetaTimestamp, now) ==
    LET nodes == Get(tax, "nodes").a
        core == {"id", "label", "parentId", "kind", "order"}
        out == SetProp(tax, "nodes",
                   JArr([i \in DOMAIN nodes |->
                            JObj([k \in DOMAIN nodes[i].f \cap core |-> nodes[i].f[k]])]))
    IN  JsonText(JsonStringify(out), IF Pretty(pretty) THEN 2 ELSE 0)

exportTaxonomy(tax, pretty, includeMetaTimestamp, now) ==
    LET out == IF IncludeMetaTimestamp(includeMetaTimestamp)
               THEN SetProp(tax, "meta", SetProp(Get(tax, "meta"), "updatedAt", JStr(now)))
               ELSE tax
    IN  JsonText(JsonStringify(out), IF Pretty(pretty) THEN 2 ELSE 0)

---------------------------------------------------------------------------
(* Import specification: importTaxonomy, then exportTaxonomy of the         *)
(* taxonomy imported (pretty or not, with or without the meta timestamp),  *)
(* then importTaxonomy of the text exported.  The strings imported are a   *)
(* string that is not JSON, JSON texts that are no taxonomy, and the texts *)
(* of taxonomies of at most MaxRawNodes nodes with ids by position,        *)
(* parentIds null, an id or an id of no node, both kinds, the order        *)
(* absent, 1 or -0, and with or without passenger fields (export, aliases, *)
(* and data holding 1 or a number literal beyond the double range).        *)

StrOverflow == <<49, 101, 57, 57, 57>>   \* '1e999'
StrMinusZero == <<45, 48>>             \* '-0'
StrOne == <<49>>                        \* '1'
StrNow == <<50, 48, 50, 54, 45, 48, 49, 45, 48, 49, 84, 48, 48, 58, 48, 48, 58, 48, 48, 46, 48, 48, 48, 90>>

\* The order and the passenger fields of a node in the text: the order
\* absent, 1 or -0; no passenger field, or export, aliases and data, the
\* data holding the number 1 or a number beyond the double range.
NodeExtras ==
    {[order |-> JUndefined, data |-> JUndefined, export |-> JUndefined,
      aliases |-> JUndefined],
     [order |-> JLiteral(StrMinusZero), data |-> JUndefined, export |-> JUndefined,
      aliases |-> JUndefined],
     [order |-> JUndefined, data |-> JObj([w |-> JLiteral(StrOne)]),
      export |-> JBool(FALSE), aliases |-> JArr(<<JStr(StrOther)>>)],
     [order |-> JLiteral(StrOne), data |-> JObj([w |-> JLiteral(StrOne)]),
      export |-> JBool(FALSE), aliases |-> JArr(<<JStr(StrOther)>>)],
     [order |-> JLiteral(StrOne), data |-> JObj([w |-> JLiteral(StrOverflow)]),
      export |-> JBool(TRUE), aliases |-> JUndefined]}

TextNode(id, parentId, kind, extras) ==
    RawObject([id |-> JStr(id), label |-> JStr(StrA1), parentId |-> parentId,
               kind |-> JStr(kind), order |-> extras.order, data |-> extras.data,
               export |-> extras.export, aliases |-> extras.aliases])

\* JSON values that are no taxonomy, and a taxonomy of another version.
OtherTrees ==
    {JNull, JLiteral(StrOne), JStr(StrA1), JArr(<<>>),
     RawObject([schemaVersion |-> JStr(SCHEMA_VERSION)]),
     RawObject([schemaVersion |-> JStr(SCHEMA_VERSION), nodes |-> JStr(StrA1)]),
     RawObject([nodes |-> JArr(<<>>)]),
     RawTaxonomy(JLiteral(StrOne), <<>>),
     RawTaxonomy(JStr(StrVersionOther), <<>>)}

InitImport ==
    /\ \/ jsonString = NotJson
       \/ \E tree \in OtherTrees : jsonString = JsonText(tree, 0)
       \/ \E n \in 0..MaxRawNodes :
             \E parents \in [1..n -> {JNull, JStr(StaleId)} \cup {JStr(PosId(k)) : k \in 1..n}],
                kinds \in [1..n -> {KindFolder, KindTag}],
                extras \in [1..n -> NodeExtras] :
                 jsonString =
                     JsonText(RawTaxonomy(JStr(StrVersionPatch),
                                  [i \in 1..n |-> TextNode(PosId(i), parents[i], kinds[i],
                                                           extras[i])]),
                              0)
    /\ taxonomy = <<>>
    /\ cmpCall = NoCall
    /\ index = NoIndex
    /\ selectedIds = NoValue
    /\ closure = NoValue
    /\ exportSet = NoValue
    /\ sortInput = NoValue
    /\ sortedIds = [status |-> "none", ids |-> NoValue]
    /\ output = NoOutput
    /\ fmtCall = NoFmtCall
    /\ data = NoData
    /\ options = "undefined"
    /\ validation = NoValidation
    /\ imported = NoImport
    /\ exported = NoString
    /\ reimported = NoImport
    /\ orderInput = NoData
    /\ initialized = NoData
    /\ normalized = NoData
    /\ BlankStore

\* importTaxonomy(jsonString); data and validation keep what it parsed and
\* what its call of validateTaxonomy returned.
ImportTaxonomy ==
    /\ jsonString # NoString
    /\ imported.status = "none"
    /\ imported' = importTaxonomy(jsonString)
    /\ IF jsonString.wellFormed
       THEN /\ data' = JsonParse(jsonString.tree)
            /\ validation' = validateTaxonomy(JsonParse(jsonString.tree), "undefined")
       ELSE UNCHANGED <<data, validation>>
    /\ UNCHANGED <<cmpCall, taxonomy, index, selectedIds, closure, exportSet,
                   sortInput, sortedIds, output>>
    /\ UNCHANGED <<fmtCall, options, jsonString, exported, reimported, orderInput,
                   initialized, normalized, store, call>>

ExportOptions == {"undefined", "true", "false"}

ExportTaxonomy ==
    /\ imported.status = "returned"
    /\ imported.success
    /\ exported = NoString
    /\ \E pretty \in ExportOptions, includeMetaTimestamp \in ExportOptions :
          exported' = exportTaxonomy(imported.taxonomy, pretty, includeMetaTimestamp, StrNow)
    /\ UNCHANGED <<cmpCall, taxonomy, index, selectedIds, closure, exportSet,
                   sortInput, sortedIds, output>>
    /\ UNCHANGED <<fmtCall, data, options, validation, jsonString, imported, reimported,
                   orderInput, initialized, normalized, store, call>>

ReimportTaxonomy ==
    /\ exported # NoString
    /\ reimported.status = "none"
    /\ reimported' = importTaxonomy(exported)
    /\ UNCHANGED <<cmpCall, taxonomy, index, selectedIds, closure, exportSet,
                   sortInput, sortedIds, output>>
    /\ UNCHANGED <<fmtCall, data, options, validation, jsonString, imported, exported,
                   orderInput, initialized, normalized, store, call>>

NextImport == ImportTaxonomy \/ ExportTaxonomy \/ ReimportTaxonomy

SpecImport == InitImport /\ [][NextImport]_vars

---------------------------------------------------------------------------
(* Leaf rule specification: validateTaxonomy, with enforceTagLeaf omitted, *)
(* true and false, on the data of every taxonomy of at most MaxAttrNodes   *)
(* nodes with ids by position, both kinds, and parentIds null, an id or    *)
(* an id of no node.                                                       *)

InitLeaf ==
    /\ \E n \in 0..MaxAttrNodes :
          \E parents \in [1..n -> {JNull, JStr(StaleId)} \cup {JStr(PosId(k)) : k \in 1..n}],
             kinds \in [1..n -> {KindFolder, KindTag}] :
              data = RawTaxonomy(JStr(SCHEMA_VERSION),
                         [i \in 1..n |-> RawNode(JStr(PosId(i)), JStr(StrA1), parents[i],
                                                 JStr(kinds[i]), JNum(0))])
    /\ taxonomy = <<>>
    /\ cmpCall = NoCall
    /\ index = NoIndex
    /\ selectedIds = NoValue
    /\ closure = NoValue
    /\ exportSet = NoValue
    /\ sortInput = NoValue
    /\ sortedIds = [status |-> "none", ids |-> NoValue]
    /\ output = NoOutput
    /\ fmtCall = NoFmtCall
    /\ options = "undefined"
    /\ validation = NoValidation
    /\ jsonString = NoString
    /\ imported = NoImport
    /\ exported = NoString
    /\ reimported = NoImport
    /\ orderInput = NoData
    /\ initialized = NoData
    /\ normalized = NoData
    /\ BlankStore

NextLeaf == ValidateTaxonomy

SpecLeaf == InitLeaf /\ [][NextLeaf]_vars

\* The number of TAG_HAS_CHILDREN errors returned that name the node id.
LeafErrorCount(id) ==
    Cardinality({e \in DOMAIN validation.errors :
                    /\ validation.errors[e].code = "TAG_HAS_CHILDREN"
                    /\ validation.errors[e].path = NodePath(id.s)})

\* Some ancestor of the node of the id value (parent, parent's parent, ...)
\* is of kind 'tag'.
HasTagAncestor(id) ==
    \E k \in 1..Len(DataNodes) :
        LET anc == DataParentStep(id, k)
        IN  anc \in DataIds /\ Get(DataNodeOf(anc), "kind") = JStr(KindTag)

\* The parent of the node of the id value is of kind 'tag'.
HasTagParent(id) ==
    LET p == Get(DataNodeOf(id), "parentId")
    IN  p \in DataIds /\ Get(DataNodeOf(p), "kind") = JStr(KindTag)

---------------------------------------------------------------------------
(* Import of sound taxonomies (import specification) *)

\* The value parsed is a taxonomy as C18 describes it: a compatible
\* schemaVersion, unique non-empty ids, comma-free string labels, kinds
\* 'folder' or 'tag', integer or absent orders, and parentIds that are null
\* or the id of a node, without cycle.
SoundTaxonomy ==
    /\ data.t = "object"
    /\ Get(data, "schemaVersion") \in {JStr(SCHEMA_VERSION), JStr(StrVersionPatch)}
    /\ Get(data, "nodes").t = "array"
    /\ \A i \in DOMAIN DataNodes :
          LET node == DataNodes[i]
          IN  /\ node.t = "object"
              /\ Get(node, "id").t = "string"
              /\ Get(node, "id").s # <<>>
              /\ \A j \in DOMAIN DataNodes :
                    (Get(DataNodes[j], "id") = Get(node, "id")) => (i = j)
              /\ Get(node, "label").t = "string"
              /\ \A c \in DOMAIN Get(node, "label").s : Get(node, "label").s[c] # 44
              /\ Get(node, "kind") \in {JStr(KindFolder), JStr(KindTag)}
              /\ \/ Get(node, "order") = JUndefined
                 \/ (Get(node, "order").t = "number"
                     /\ Get(node, "order").q \in {"int", "negzero"})
              /\ \/ Get(node, "parentId") = JNull
                 \/ Get(node, "parentId") \in DataIds
              /\ \A k \in 1..Len(DataNodes) :
                    DataParentStep(Get(node, "id"), k) # Get(node, "id")

\* C18: importTaxonomy succeeds, with a taxonomy, for the JSON text of every
\* sound taxonomy, a taxonomy in which a tag has children included.
C18_SoundTaxonomyImports ==
    (imported.status # "none" /\ jsonString.wellFormed /\ SoundTaxonomy) =>
        (imported.success /\ imported.taxonomy.t = "object")

\* The same statement for the sound taxonomies in which no node has a tag as
\* its parent: it holds, so the children of tags are all that import refuses.
C18_SoundLeafTaxonomyImports ==
    (/\ imported.status # "none"
     /\ jsonString.wellFormed
     /\ SoundTaxonomy
     /\ \A id \in DataIds : ~HasTagParent(id)) =>
        (imported.success /\ imported.taxonomy.t = "object")

---------------------------------------------------------------------------
(* Round trip (import specification) *)

\* The nodes of an ImportResult with success.
NodesOf(result) == Get(result.taxonomy, "nodes").a

NodeFields == {"id", "label", "parentId", "kind", "order"}

PassengerFields == {"aliases", "meta", "data", "export"}

\* The second import succeeded and returned the nodes of the first: as
\* many, in the same order, each with the same core and passenger fields.
SameNodes ==
    /\ reimported.success
    /\ Len(NodesOf(reimported)) = Len(NodesOf(imported))
    /\ \A i \in DOMAIN NodesOf(imported) :
          \A name \in NodeFields \cup PassengerFields :
              Get(NodesOf(reimported)[i], name) = Get(NodesOf(imported)[i], name)

\* A negative zero or an Infinity is somewhere in the value.
RECURSIVE HoldsUnwritableNumber(_)
HoldsUnwritableNumber(v) ==
    CASE v.t = "number" -> v.q \in {"negzero", "inf"}
      [] v.t = "array" -> \E i \in DOMAIN v.a : HoldsUnwritableNumber(v.a[i])
      [] v.t = "object" -> \E k \in DOMAIN v.f : HoldsUnwritableNumber(v.f[k])
      [] OTHER -> FALSE

\* C19 as claimed: for every string that importTaxonomy accepts, the import
\* of the export of the taxonomy imported succeeds and returns the same
\* nodes in the same order with identical id, label, parentId, kind, order
\* and passenger fields.
C19_RoundTrip ==
    (reimported.status # "none") => SameNodes

\* C19 amended: the same for every accepted string whose taxonomy holds no
\* number that is negative zero or infinite.
C19_RoundTripOfWritableNumbers ==
    (reimported.status # "none" /\ ~HoldsUnwritableNumber(imported.taxonomy)) =>
        SameNodes

\* A taxonomy of MaxRawNodes nodes came back the same: the first import
\* gave its last node, a child of the first, the order 0, and its first
\* node carries passenger fields.
C19_Witness ==
    /\ reimported.status = "returned"
    /\ SameNodes
    /\ Len(NodesOf(imported)) = MaxRawNodes
    /\ Get(DataNodes[Len(DataNodes)], "order") = JUndefined
    /\ Get(DataNodes[Len(DataNodes)], "parentId") = Get(DataNodes[1], "id")
    /\ Get(NodesOf(reimported)[Len(DataNodes)], "order") = JNum(0)
    /\ Get(NodesOf(reimported)[1], "data") = JObj([w |-> JNum(1)])
    /\ Get(NodesOf(reimported)[1], "export") = JBool(FALSE)

---------------------------------------------------------------------------
(* Order specification: initializeOrder on every taxonomy of at most       *)
(* MaxAttrNodes nodes with ids by position, parentIds null, an id or an id *)
(* of no node, the order absent, null, 0 or 2, and an export field.        *)

InitOrder ==
    /\ \E n \in 0..MaxAttrNodes :
          \E parents \in [1..n -> {JNull, JStr(StaleId)} \cup {JStr(PosId(k)) : k \in 1..n}],
             orders \in [1..n -> {JUndefined, JNull, JNum(0), JNum(2)}] :
              orderInput =
                  RawTaxonomy(JStr(SCHEMA_VERSION),
                      [i \in 1..n |->
                          RawObject([id |-> JStr(PosId(i)), label |-> JStr(StrA1),
                                     parentId |-> parents[i], kind |-> JStr(KindTag),
                                     order |-> orders[i], export |-> JBool(FALSE)])])
    /\ taxonomy = <<>>
    /\ cmpCall = NoCall
    /\ index = NoIndex
    /\ selectedIds = NoValue
    /\ closure = NoValue
    /\ exportSet = NoValue
    /\ sortInput = NoValue
    /\ sortedIds = [status |-> "none", ids |-> NoValue]
    /\ output = NoOutput
    /\ fmtCall = NoFmtCall
    /\ data = NoData
    /\ options = "undefined"
    /\ validation = NoValidation
    /\ jsonString = NoString
    /\ imported = NoImport
    /\ exported = NoString
    /\ reimported = NoImport
    /\ initialized = NoData
    /\ normalized = NoData
    /\ BlankStore

\* initialized = initializeOrder(orderInput)
InitializeOrder ==
    /\ orderInput # NoData
    /\ initialized = NoData
    /\ normalized = NoData
    /\ BlankStore
    /\ initialized' = initializeOrder(orderInput)
    /\ UNCHANGED <<taxonomy, cmpCall, index, selectedIds, closure, exportSet, sortInput,
                   sortedIds, output, fmtCall, data, options, validation, jsonString,
                   imported, exported, reimported, orderInput,
                   normalized, store, call>>

NextOrder == InitializeOrder

SpecOrder == InitOrder /\ [][NextOrder]_vars

\* The nodes given to initializeOrder and the nodes returned.
NodesGiven == Get(orderInput, "nodes").a

NodesReturned == Get(initialized, "nodes").a

\* The node given at position i has no order.
LacksOrder(i) == Get(NodesGiven[i], "order") \in {JUndefined, JNull}

\* The number of nodes before position i with the parentId of the node at i.
EarlierSiblings(i) ==
    Cardinality({j \in DOMAIN NodesGiven :
                    j < i /\ Get(NodesGiven[j], "parentId") = Get(NodesGiven[i], "parentId")})

\* C20: initializeOrder returns the nodes in the order given; a node without
\* order gets the number of earlier nodes of the list with its parentId, a
\* node with an order keeps it, every other field of every node is kept,
\* and every node returned has an integer order.
C20_InitializeOrder ==
    (initialized # NoData) =>
        /\ Len(NodesReturned) = Len(NodesGiven)
        /\ \A i \in DOMAIN NodesGiven :
              /\ LacksOrder(i) =>
                    Get(NodesReturned[i], "order") = JNum(EarlierSiblings(i))
              /\ ~LacksOrder(i) =>
                    Get(NodesReturned[i], "order") = Get(NodesGiven[i], "order")
              /\ DOMAIN NodesReturned[i].f = DOMAIN NodesGiven[i].f \cup {"order"}
              /\ \A name \in DOMAIN NodesGiven[i].f \ {"order"} :
                    Get(NodesReturned[i], name) = Get(NodesGiven[i], name)
              /\ Get(NodesReturned[i], "order").t = "number"
              /\ IsInteger(Get(NodesReturned[i], "order"))

\* Three nodes were given: a root without order, a child of it with order
\* 2 and a second root without order; the roots got 0 and 1 and the child
\* kept 2.
C20_Witness ==
    /\ initialized # NoData
    /\ Len(NodesGiven) = 3
    /\ Get(NodesGiven[1], "parentId") = JNull
    /\ LacksOrder(1)
    /\ Get(NodesGiven[2], "parentId") = JStr(PosId(1))
    /\ Get(NodesGiven[2], "order") = JNum(2)
    /\ Get(NodesGiven[3], "parentId") = JNull
    /\ LacksOrder(3)
    /\ Get(NodesReturned[1], "order") = JNum(0)
    /\ Get(NodesReturned[2], "order") = JNum(2)
    /\ Get(NodesReturned[3], "order") = JNum(1)

---------------------------------------------------------------------------
(* Normalization specification: normalizeOrder on every taxonomy of at     *)
(* most MaxAttrNodes nodes with parentIds null, an id or an id of no node, *)
(* the order absent, 0 or 1, an export field, and with the ids by          *)
(* position, by position from the end, or with the id of the first node    *)
(* given to the last node as well.                                         *)

IdModes == {"position", "reversed", "duplicate"}

ModeId(mode, n, i) ==
    CASE mode = "position" -> PosId(i)
      [] mode = "reversed" -> PosId(n + 1 - i)
      [] mode = "duplicate" -> IF i = n THEN PosId(1) ELSE PosId(i)

InitNormalize ==
    /\ \E n \in 0..MaxAttrNodes :
          \E parents \in [1..n -> {JNull, JStr(StaleId)} \cup {JStr(PosId(k)) : k \in 1..n}],
             orders \in [1..n -> {JUndefined, JNum(0), JNum(1)}],
             mode \in IdModes :
              orderInput =
                  RawTaxonomy(JStr(SCHEMA_VERSION),
                      [i \in 1..n |->
                          RawObject([id |-> JStr(ModeId(mode, n, i)), label |-> JStr(StrA1),
                                     parentId |-> parents[i], kind |-> JStr(KindTag),
                                     order |-> orders[i], export |-> JBool(FALSE)])])
    /\ taxonomy = <<>>
    /\ cmpCall = NoCall
    /\ index = NoIndex
    /\ selectedIds = NoValue
    /\ closure = NoValue
    /\ exportSet = NoValue
    /\ sortInput = NoValue
    /\ sortedIds = [status |-> "none", ids |-> NoValue]
    /\ output = NoOutput
    /\ fmtCall = NoFmtCall
    /\ data = NoData
    /\ options = "undefined"
    /\ validation = NoValidation
    /\ jsonString = NoString
    /\ imported = NoImport
    /\ exported = NoString
    /\ reimported = NoImport
    /\ initialized = NoData
    /\ normalized = NoData
    /\ BlankStore

\* Mutant of NormalizeOrder: the node array of the taxonomy given is sorted
\* by order in place before the new taxonomy is made.
NormalizeOrderInPlace ==
    /\ orderInput # NoData
    /\ normalized = NoData
    /\ normalized' = normalizeOrder(orderInput)
    /\ orderInput' =
          LET nodes == Get(orderInput, "nodes").a
              sorted == SortByOrder(nodes, [i \in DOMAIN nodes |-> i])
          IN  SetProp(orderInput, "nodes", JArr([i \in DOMAIN nodes |-> nodes[sorted[i]]]))
    /\ UNCHANGED <<taxonomy, cmpCall, index, selectedIds, closure, exportSet, sortInput,
                   sortedIds, output, fmtCall, data, options, validation, jsonString,
                   imported, exported, reimported, initialized, store, call>>

\* normalized = normalizeOrder(orderInput); the sort is made on the arrays
\* of byParent, the taxonomy given and its nodes are not assigned to.
NormalizeOrder ==
    /\ orderInput # NoData
    /\ normalized = NoData
    /\ normalized' = normalizeOrder(orderInput)
    /\ UNCHANGED <<taxonomy, cmpCall, index, selectedIds, closure, exportSet, sortInput,
                   sortedIds, output, fmtCall, data, options, validation, jsonString,
                   imported, exported, reimported, orderInput, initialized, store, call>>

NextNormalize == NormalizeOrder

SpecNormalize == InitNormalize /\ [][NextNormalize]_vars

\* The nodes returned by normalizeOrder.
NodesNormalized == Get(normalized, "nodes").a

\* The positions of the sibling group of the node given at position i.
SiblingGroup(i) ==
    {j \in DOMAIN NodesGiven :
        Get(NodesGiven[j], "parentId") = Get(NodesGiven[i], "parentId")}

\* The order of the node given at position i, 0 when it has none.
PreviousOrder(i) ==
    IF Get(NodesGiven[i], "order") = JUndefined THEN 0 ELSE Get(NodesGiven[i], "order").n

\* What C21 says of the taxonomy returned.
NormalizedAsClaimed ==
    /\ Len(NodesNormalized) = Len(NodesGiven)
    /\ \A i \in DOMAIN NodesGiven :
          /\ {Get(NodesNormalized[j], "order") : j \in SiblingGroup(i)} =
                 {JNum(k) : k \in 0..(Cardinality(SiblingGroup(i)) - 1)}
          /\ \A j \in SiblingGroup(i) :
                 (i < j) =>
                     LET before == Get(NodesNormalized[i], "order").n <
                                       Get(NodesNormalized[j], "order").n
                     IN  before <=> (PreviousOrder(i) <= PreviousOrder(j))
          /\ DOMAIN NodesNormalized[i].f = DOMAIN NodesGiven[i].f \cup {"order"}
          /\ \A name \in DOMAIN NodesGiven[i].f \ {"order"} :
                 Get(NodesNormalized[i], name) = Get(NodesGiven[i], name)

\* The ids of the nodes given are pairwise distinct.
DistinctIdsGiven ==
    \A i, j \in DOMAIN NodesGiven :
        (Get(NodesGiven[i], "id") = Get(NodesGiven[j], "id")) => (i = j)

\* C21 as claimed: in the taxonomy returned by normalizeOrder the orders of
\* every sibling group of n nodes are 0..n-1, each once, ascending in the
\* previous order with ties in array order, and the list order and every
\* other field are unchanged.
C21_NormalizeOrder ==
    (normalized # NoData) => NormalizedAsClaimed

\* C21 amended: the same for a taxonomy whose node ids are pairwise distinct.
C21_NormalizeOrderOfDistinctIds ==
    (normalized # NoData /\ DistinctIdsGiven) => NormalizedAsClaimed

\* Three roots with distinct ids were given with the orders 1, none and 1
\* and got 1, 0 and 2.
C21_Witness ==
    /\ normalized # NoData
    /\ DistinctIdsGiven
    /\ Len(NodesGiven) = 3
    /\ \A i \in 1..3 : Get(NodesGiven[i], "parentId") = JNull
    /\ Get(NodesGiven[1], "order") = JNum(1)
    /\ Get(NodesGiven[2], "order") = JUndefined
    /\ Get(NodesGiven[3], "order") = JNum(1)
    /\ Get(NodesNormalized[1], "order") = JNum(1)
    /\ Get(NodesNormalized[2], "order") = JNum(0)
    /\ Get(NodesNormalized[3], "order") = JNum(2)

---------------------------------------------------------------------------
(* A JSON value that has the shape of a Taxonomy, read through the types   *)
(* of models/node.ts and models/taxonomy.ts: the nodes as TagNode records. *)

AsTagNode(node) ==
    TagNode(Get(node, "id").s,
            Get(node, "label").s,
            IF Get(node, "parentId").t = "string" THEN Get(node, "parentId").s ELSE NULL,
            IF Get(node, "kind").s = KindTag THEN "tag" ELSE "folder",
            Get(node, "order").n,
            IF Get(node, "export").t = "boolean"
            THEN (IF Get(node, "export") = JBool(TRUE) THEN "true" ELSE "false")
            ELSE "undefined")

AsTagNodes(tax) ==
    LET nodes == Get(tax, "nodes").a
    IN  [i \in DOMAIN nodes |-> AsTagNode(nodes[i])]

---------------------------------------------------------------------------
(* normalizeOrder and the index (normalization specification) *)

\* The taxonomy given passes validateTaxonomy (leaf rule off) and every node
\* of it has an order.
ValidGiven ==
    /\ validateTaxonomy(orderInput, "false").valid
    /\ \A i \in DOMAIN NodesGiven : Get(NodesGiven[i], "order").t = "number"

\* Two nodes given with the same parentId have the same order.
SiblingsShareOrder ==
    \E i, j \in DOMAIN NodesGiven :
        /\ i # j
        /\ Get(NodesGiven[i], "parentId") = Get(NodesGiven[j], "parentId")
        /\ Get(NodesGiven[i], "order") = Get(NodesGiven[j], "order")

ChildrenOfKept ==
    buildTaxonomyIndex(AsTagNodes(normalized)).childrenOf =
        buildTaxonomyIndex(AsTagNodes(orderInput)).childrenOf

\* C30 as claimed: for every valid taxonomy t, the childrenOf of the index
\* of normalizeOrder(t) is the childrenOf of the index of t, also when
\* siblings share an order value.
C30_NormalizeKeepsChildrenOf ==
    (normalized # NoData /\ ValidGiven) => ChildrenOfKept

\* C30 amended: the same for every valid taxonomy in which no two siblings
\* share an order value.
C30_NormalizeKeepsChildrenOfWithoutTies ==
    (normalized # NoData /\ ValidGiven /\ ~SiblingsShareOrder) => ChildrenOfKept

\* A valid taxonomy of three nodes without ties was normalized: two roots,
\* the first after the second in childrenOf, and a child whose order 1
\* became 0.
C30_Witness ==
    /\ normalized # NoData
    /\ ValidGiven
    /\ ~SiblingsShareOrder
    /\ Len(NodesGiven) = 3
    /\ Get(NodesGiven[1], "parentId") = JNull
    /\ Get(NodesGiven[1], "order") = JNum(1)
    /\ Get(NodesGiven[2], "parentId") = JNull
    /\ Get(NodesGiven[2], "order") = JNum(0)
    /\ Get(NodesGiven[3], "parentId") = Get(NodesGiven[1], "id")
    /\ Get(NodesGiven[3], "order") = JNum(1)
    /\ Get(NodesNormalized[3], "order") = JNum(0)
    /\ buildTaxonomyIndex(AsTagNodes(normalized)).childrenOf[NULL] =
           <<Get(NodesGiven[2], "id").s, Get(NodesGiven[1], "id").s>>
    /\ ChildrenOfKept

---------------------------------------------------------------------------
(* apps/web/src/store/taxonomyStore.ts                                     *)
(*                                                                         *)
(* The store holds the taxonomy as the JSON value (null when there is      *)
(* none) and the index built from its nodes read as TagNodes.  An action   *)
(* of the store is an operator from the state found and the arguments to   *)
(* [status, store, result]: status is "returned", or "throws" or           *)
(* "diverges" when buildTaxonomyIndex does not return, and then no set()   *)
(* after the build has run.                                                *)

Returned(st, result) == [status |-> "returned", store |-> st, result |-> result]

\* A NodeId | null of the typed side as a JSON value.
JsId(id) == IF id = NULL THEN JNull ELSE JStr(id)

\* { taxonomy, byId, childrenOf, siblingOrdinal, sortPathCache }
StoreIndex(tax, built) ==
    [t |-> "index", taxonomy |-> tax, byId |-> built.byId,
     childrenOf |-> built.childrenOf, siblingOrdinal |-> built.siblingOrdinal,
     sortPathCache |-> built.sortPathCache]

\* const index = buildTaxonomyIndex(tax); set({ taxonomy: tax, index, ...more })
BuildAndSet(st, tax, more, result) ==
    LET built == buildTaxonomyIndex(AsTagNodes(tax))
    IN  IF built.status # "ok"
        THEN [status |-> built.status, store |-> st, result |-> Void]
        ELSE Returned([k \in DOMAIN st |->
                          CASE k = "taxonomy" -> tax
                            [] k = "index" -> StoreIndex(tax, built)
                            [] k \in DOMAIN more -> more[k]
                            [] OTHER -> st[k]],
                      result)

\* The fields set with a taxonomy by loadTaxonomy and setTaxonomy.
Cleared == [error |-> FALSE, validationErrors |-> <<>>, isLoading |-> FALSE]

loadTaxonomy(st, text) ==
    LET loading == [st EXCEPT !.isLoading = TRUE, !.error = FALSE,
                              !.validationErrors = <<>>]
        result == importTaxonomy(text)
    IN  IF result.success /\ Truthy(result.taxonomy)
        THEN BuildAndSet(loading, result.taxonomy, Cleared,
                         [ok |-> TRUE, taxonomy |-> result.taxonomy])
        ELSE Returned([loading EXCEPT !.error = TRUE,
                                      !.validationErrors = result.errors,
                                      !.isLoading = FALSE],
                      [ok |-> FALSE])

setTaxonomy(st, tax) == BuildAndSet(st, tax, Cleared, Void)

clearTaxonomy(st) ==
    Returned([taxonomy |-> NoTaxonomy, index |-> NoStoreIndex, error |-> FALSE,
              validationErrors |-> <<>>, isLoading |-> FALSE],
             Void)

\* taxonomy.nodes.findIndex((n) => n.id === id): 0 when there is none, the
\* positions counting from 1.
FindIndex(nodes, id) ==
    IF \E i \in DOMAIN nodes : Get(nodes[i], "id") = JStr(id)
    THEN CHOOSE i \in DOMAIN nodes :
             /\ Get(nodes[i], "id") = JStr(id)
             /\ \A j \in 1..(i - 1) : Get(nodes[j], "id") # JStr(id)
    ELSE 0

\* { ...taxonomy, nodes: updatedNodes } with one node replaced
WithNode(tax, i, node) ==
    LET nodes == Get(tax, "nodes").a
    IN  SetProp(tax, "nodes", JArr([j \in DOMAIN nodes |-> IF j = i THEN node ELSE nodes[j]]))

\* Mutant of updateNodeLabel: the label is set and the index is kept.
updateNodeLabelKeepIndex(st, nodeId, newLabel) ==
    IF st.taxonomy = NoTaxonomy THEN Returned(st, Void)
    ELSE LET nodes == Get(st.taxonomy, "nodes").a
             i == IF nodeId = NULL THEN 0 ELSE FindIndex(nodes, nodeId)
         IN  IF i = 0 THEN Returned(st, Void)
             ELSE Returned([st EXCEPT !.taxonomy =
                                WithNode(st.taxonomy, i,
                                         SetProp(nodes[i], "label", JStr(newLabel)))],
                           Void)

updateNodeLabel(st, nodeId, newLabel) ==
    IF st.taxonomy = NoTaxonomy THEN Returned(st, Void)
    ELSE IF nodeId = NULL
    THEN BuildAndSet(st,
                     SetProp(st.taxonomy, "meta",
                             SetProp(Get(st.taxonomy, "meta"), "name", JStr(newLabel))),
                     <<>>, Void)
    ELSE LET nodes == Get(st.taxonomy, "nodes").a
             nodeIndex == FindIndex(nodes, nodeId)
         IN  IF nodeIndex = 0 THEN Returned(st, Void)
             ELSE BuildAndSet(st,
                              WithNode(st.taxonomy, nodeIndex,
                                       SetProp(nodes[nodeIndex], "label", JStr(newLabel))),
                              <<>>, Void)

\* delete obj[name]
DelProp(obj, name) == JObj([k \in DOMAIN obj.f \ {name} |-> obj.f[k]])

\* One field of updatedData: undefined leaves it, the empty value deletes
\* it, any other value sets it.
UpdateField(dat, name, value, empty) ==
    IF value = JUndefined THEN dat
    ELSE IF value = empty THEN DelProp(dat, name)
    ELSE SetProp(dat, name, value)

updateTagData(st, tagId, updates) ==
    IF st.taxonomy = NoTaxonomy THEN Returned(st, Void)
    ELSE LET nodes == Get(st.taxonomy, "nodes").a
             nodeIndex == FindIndex(nodes, tagId)
         IN  IF nodeIndex = 0 THEN Returned(st, Void)
             ELSE IF Get(nodes[nodeIndex], "kind") # JStr(KindTag) THEN Returned(st, Void)
             ELSE LET node == nodes[nodeIndex]
                      labelled == IF updates.label # JUndefined
                                  THEN SetProp(node, "label", updates.label)
                                  ELSE node
                      currentData == IF Truthy(Get(node, "data")) THEN Get(node, "data")
                                     ELSE JObj(<<>>)
                      updatedData ==
                          UpdateField(
                              UpdateField(
                                  UpdateField(currentData, "displayName",
                                              updates.displayName, JStr(<<>>)),
                                  "color", updates.color, JStr(<<>>)),
                              "aliases", updates.aliases, JArr(<<>>))
                      aliases == Get(updatedData, "aliases")
                      keep == \/ Truthy(Get(updatedData, "displayName"))
                              \/ Truthy(Get(updatedData, "color"))
                              \/ (Truthy(aliases) /\ aliases.t = "array" /\ Len(aliases.a) > 0)
                      updatedNode == IF keep THEN SetProp(labelled, "data", updatedData)
                                     ELSE DelProp(labelled, "data")
                  IN  BuildAndSet(st, WithNode(st.taxonomy, nodeIndex, updatedNode),
                                  <<>>, Void)

\* taxonomy.nodes.map(...) of swapNodeOrder: the node and the target
\* exchange their orders.
SwapOrders(nodes, nodeId, targetNodeId, tempOrder, targetOrder) ==
    [i \in DOMAIN nodes |->
        IF Get(nodes[i], "id") = JStr(nodeId)
        THEN SetProp(nodes[i], "order", JNum(targetOrder))
        ELSE IF Get(nodes[i], "id") = JStr(targetNodeId)
        THEN SetProp(nodes[i], "order", JNum(tempOrder))
        ELSE nodes[i]]

swapNodeOrder(st, nodeId, direction) ==
    IF st.taxonomy = NoTaxonomy \/ st.index = NoStoreIndex THEN Returned(st, Void)
    ELSE IF nodeId \notin DOMAIN st.index.byId THEN Returned(st, Void)
    ELSE LET node == st.index.byId[nodeId]
             siblings == IF node.parentId \in DOMAIN st.index.childrenOf
                         THEN st.index.childrenOf[node.parentId]
                         ELSE <<>>
         IN  IF Len(siblings) <= 1 THEN Returned(st, Void)
             ELSE IF ~InSeq(nodeId, siblings) THEN Returned(st, Void)
             ELSE LET currentIndex == IndexOf(nodeId, siblings)
                  IN  IF direction = "up" /\ currentIndex = 1 THEN Returned(st, Void)
                      ELSE IF direction # "up" /\ currentIndex = Len(siblings)
                      THEN Returned(st, Void)
                      ELSE LET targetIndex == IF direction = "up" THEN currentIndex - 1
                                              ELSE currentIndex + 1
                               targetNodeId == siblings[targetIndex]
                           IN  IF targetNodeId \notin DOMAIN st.index.byId
                               THEN Returned(st, Void)
                               ELSE LET targetNode == st.index.byId[targetNodeId]
                                        updatedNodes ==
                                            SwapOrders(Get(st.taxonomy, "nodes").a, nodeId,
                                                       targetNodeId, node.order,
                                                       targetNode.order)
                                        normalizedTaxonomy ==
                                            normalizeOrder(SetProp(st.taxonomy, "nodes",
                                                                   JArr(updatedNodes)))
                                    IN  BuildAndSet(st, normalizedTaxonomy, <<>>, Void)

\* collectDescendants: the children of parentId are added to nodesToRemove
\* one after the other, each followed by its own descendants.  The calls
\* nest once per level; a nesting deeper than there are ids is on a loop of
\* childrenOf and ends in a RangeError (overflow).
RECURSIVE CollectChildren(_, _, _, _)
CollectChildren(idx, acc, children, depth) ==
    IF acc.overflow \/ children = <<>> THEN acc
    ELSE IF depth > Cardinality(DOMAIN idx.byId) + 1
    THEN [overflow |-> TRUE, ids |-> acc.ids]
    ELSE LET childId == Head(children)
             added == [overflow |-> FALSE, ids |-> SetAdd(acc.ids, childId)]
             below == CollectChildren(idx, added,
                                      IF childId \in DOMAIN idx.childrenOf
                                      THEN idx.childrenOf[childId] ELSE <<>>,
                                      depth + 1)
         IN  CollectChildren(idx, below, Tail(children), depth)

collectDescendants(idx, nodesToRemove, parentId) ==
    CollectChildren(idx, [overflow |-> FALSE, ids |-> nodesToRemove],
                    IF parentId \in DOMAIN idx.childrenOf
                    THEN idx.childrenOf[parentId] ELSE <<>>,
                    1)

NotFound == [success |-> FALSE, reason |-> "not_found"]

FolderNotEmpty == [success |-> FALSE, reason |-> "folder_not_empty"]

\* Mutant of deleteNode: only the node itself is removed.
deleteNodeOnly(st, nodeId) ==
    IF st.taxonomy = NoTaxonomy \/ st.index = NoStoreIndex THEN Returned(st, NotFound)
    ELSE IF nodeId \notin DOMAIN st.index.byId THEN Returned(st, NotFound)
    ELSE LET node == st.index.byId[nodeId]
             children == IF nodeId \in DOMAIN st.index.childrenOf
                         THEN st.index.childrenOf[nodeId] ELSE <<>>
         IN  IF node.kind = "folder" /\ Len(children) > 0
             THEN Returned(st, FolderNotEmpty)
             ELSE BuildAndSet(st,
                      SetProp(st.taxonomy, "nodes",
                              JArr(SelectSeq(Get(st.taxonomy, "nodes").a,
                                             LAMBDA n : Get(n, "id") # JStr(nodeId)))),
                      <<>>,
                      [success |-> TRUE,
                       removedTagIds |-> IF node.kind = "tag" THEN <<nodeId>> ELSE <<>>])

deleteNode(st, nodeId) ==
    IF st.taxonomy = NoTaxonomy \/ st.index = NoStoreIndex THEN Returned(st, NotFound)
    ELSE IF nodeId \notin DOMAIN st.index.byId THEN Returned(st, NotFound)
    ELSE LET node == st.index.byId[nodeId]
             children == IF nodeId \in DOMAIN st.index.childrenOf
                         THEN st.index.childrenOf[nodeId] ELSE <<>>
         IN  IF node.kind = "folder" /\ Len(children) > 0
             THEN Returned(st, FolderNotEmpty)
             ELSE LET collected == collectDescendants(st.index, <<nodeId>>, nodeId)
                      nodesToRemove == collected.ids
                      updatedNodes ==
                          SelectSeq(Get(st.taxonomy, "nodes").a,
                                    LAMBDA n : ~\E k \in DOMAIN nodesToRemove :
                                                   Get(n, "id") = JStr(nodesToRemove[k]))
                      removedTagIds ==
                          SelectSeq(nodesToRemove,
                                    LAMBDA id : /\ id \in DOMAIN st.index.byId
                                                /\ st.index.byId[id].kind = "tag")
                  IN  IF collected.overflow
                      THEN [status |-> "throws", store |-> st, result |-> Void]
                      ELSE BuildAndSet(st,
                                       SetProp(st.taxonomy, "nodes", JArr(updatedNodes)),
                                       <<>>,
                                       [success |-> TRUE, removedTagIds |-> removedTagIds])

\* maxOrder of createNode: the largest order among the siblings, -1 when
\* there is none (or none above -1).
RECURSIVE MaxSiblingOrder(_, _, _)
MaxSiblingOrder(byId, siblings, maxOrder) ==
    IF siblings = <<>> THEN maxOrder
    ELSE LET siblingId == Head(siblings)
         IN  MaxSiblingOrder(byId, Tail(siblings),
                 IF siblingId \in DOMAIN byId /\ byId[siblingId].order > maxOrder
                 THEN byId[siblingId].order
                 ELSE maxOrder)

StrBlue == <<35, 51, 98, 56, 50, 102, 54>>     \* '#3b82f6'

\* The data of a new tag.
NewTagData ==
    JObj([displayName |-> JStr(<<>>), aliases |-> JArr(<<>>), color |-> JStr(StrBlue)])

\* generated is the id that ended the do-while loop of createNode, an id
\* that is not in byId, or NULL when 101 ids in a row were in byId.
createNode(st, kind, parentId, defaultLabel, generated) ==
    IF st.taxonomy = NoTaxonomy \/ st.index = NoStoreIndex THEN Returned(st, JNull)
    ELSE IF generated = NULL THEN Returned(st, JNull)
    ELSE LET siblings == IF parentId \in DOMAIN st.index.childrenOf
                         THEN st.index.childrenOf[parentId] ELSE <<>>
             newOrder == MaxSiblingOrder(st.index.byId, siblings, -1) + 1
             newNodeBase == JObj([id |-> JStr(generated), label |-> JStr(defaultLabel),
                                  parentId |-> JsId(parentId), kind |-> JStr(kind),
                                  order |-> JNum(newOrder)])
             newNode == IF kind = KindTag THEN SetProp(newNodeBase, "data", NewTagData)
                        ELSE newNodeBase
         IN  BuildAndSet(st,
                         SetProp(st.taxonomy, "nodes",
                                 JArr(Append(Get(st.taxonomy, "nodes").a, newNode))),
                         <<>>, JStr(generated))

\* onRehydrateStorage, on the state holding the persisted taxonomy: the
\* validation errors are assigned before the index is built.
onRehydrateStorage(st) ==
    IF ~Truthy(st.taxonomy) THEN Returned(st, Void)
    ELSE LET validation_ == validateTaxonomy(st.taxonomy, "undefined")
             checked == IF ~validation_.valid
                        THEN [st EXCEPT !.validationErrors = validation_.errors,
                                        !.error = TRUE]
                        ELSE [st EXCEPT !.validationErrors = <<>>, !.error = FALSE]
             built == buildTaxonomyIndex(AsTagNodes(st.taxonomy))
         IN  IF built.status # "ok"
             THEN [status |-> built.status, store |-> checked, result |-> Void]
             ELSE Returned([checked EXCEPT !.index = StoreIndex(st.taxonomy, built)], Void)

---------------------------------------------------------------------------
(* Calls on the store.  A call is made on the state the store is in; what  *)
(* it was given, the state it found and what came back are kept in call.   *)
(* At most MaxStoreCalls calls are made, and none after a call that never  *)
(* returned.                                                               *)

\* Largest number of calls made on the store.
MaxStoreCalls == 3

StoreCall(op, args, outcome) ==
    /\ call.n < MaxStoreCalls
    /\ call.status # "diverges"
    /\ store' = outcome.store
    /\ call' = [op |-> op, args |-> args, before |-> store, status |-> outcome.status,
                result |-> outcome.result, n |-> call.n + 1]
    /\ UNCHANGED <<cmpCall, taxonomy, index, selectedIds, closure, exportSet, sortInput,
                   sortedIds, output>>
    /\ UNCHANGED ioVars

\* The ids of the nodes of the taxonomy held, and an id of no node.
StoreIds ==
    {StaleId} \cup
    (IF store.taxonomy = NoTaxonomy THEN {}
     ELSE {Get(Get(store.taxonomy, "nodes").a[i], "id").s :
              i \in DOMAIN Get(store.taxonomy, "nodes").a})

StrNewTag == <<110, 101, 119, 95, 116, 97, 103>>      \* 'new_tag'

\* An id that generateId can return: 'f_' or 't_' and eight characters.
NewId(kind) ==
    <<(IF kind = KindFolder THEN 102 ELSE 116), 95, 48, 48, 48, 48, 48, 48, 48, 48>>

\* Updates given to updateTagData: a label with a comma, and the data
\* fields emptied or set.
TagUpdates ==
    {[label |-> JStr(StrComma), displayName |-> JUndefined, color |-> JUndefined,
      aliases |-> JUndefined],
     [label |-> JUndefined, displayName |-> JStr(StrOther), color |-> JStr(<<>>),
      aliases |-> JArr(<<>>)]}

LoadTaxonomy ==
    /\ jsonString # NoString
    /\ StoreCall("loadTaxonomy", [jsonString |-> jsonString],
                 loadTaxonomy(store, jsonString))

SetTaxonomy ==
    /\ data # NoData
    /\ StoreCall("setTaxonomy", [taxonomy |-> data], setTaxonomy(store, data))

ClearTaxonomy == StoreCall("clearTaxonomy", <<>>, clearTaxonomy(store))

UpdateNodeLabel ==
    \E nodeId \in StoreIds \cup {NULL}, newLabel \in {StrComma} :
        StoreCall("updateNodeLabel", [nodeId |-> nodeId, newLabel |-> newLabel],
                  updateNodeLabel(store, nodeId, newLabel))

UpdateTagData ==
    \E tagId \in StoreIds, updates \in TagUpdates :
        StoreCall("updateTagData", [tagId |-> tagId, updates |-> updates],
                  updateTagData(store, tagId, updates))

SwapNodeOrder ==
    \E nodeId \in StoreIds, direction \in {"up", "down"} :
        StoreCall("swapNodeOrder", [nodeId |-> nodeId, direction |-> direction],
                  swapNodeOrder(store, nodeId, direction))

DeleteNode ==
    \E nodeId \in StoreIds :
        StoreCall("deleteNode", [nodeId |-> nodeId], deleteNode(store, nodeId))

\* The loop of createNode ends with an id that is not in byId; it can end
\* without one only when an id that generateId returns is in byId.
CreateNode ==
    /\ \E kind \in {KindFolder, KindTag}, parentId \in StoreIds \cup {NULL} :
          \E generated \in
                 IF store.index = NoStoreIndex THEN {NewId(kind)}
                 ELSE IF NewId(kind) \in DOMAIN store.index.byId THEN {NULL}
                 ELSE {NewId(kind)} :
              StoreCall("createNode",
                        [kind |-> kind, parentId |-> parentId, defaultLabel |-> StrNewTag,
                         generated |-> generated],
                        createNode(store, kind, parentId, StrNewTag, generated))

Rehydrate ==
    /\ call.op = "none"
    /\ StoreCall("rehydrate", <<>>, onRehydrateStorage(store))

\* A node of a Taxonomy given to the store, and the Taxonomy.
JsNode(id, label, parentId, kind, order) ==
    RawNode(JStr(id), JStr(label), JsId(parentId), JStr(kind), JNum(order))

\* A blank state but for the taxonomy given to the store and the string
\* given to loadTaxonomy.
BlankButStoreInput ==
    /\ taxonomy = <<>>
    /\ cmpCall = NoCall
    /\ index = NoIndex
    /\ selectedIds = NoValue
    /\ closure = NoValue
    /\ exportSet = NoValue
    /\ sortInput = NoValue
    /\ sortedIds = [status |-> "none", ids |-> NoValue]
    /\ output = NoOutput
    /\ fmtCall = NoFmtCall
    /\ options = "undefined"
    /\ validation = NoValidation
    /\ imported = NoImport
    /\ exported = NoString
    /\ reimported = NoImport
    /\ orderInput = NoData
    /\ initialized = NoData
    /\ normalized = NoData

---------------------------------------------------------------------------
(* Swap specification: setTaxonomy with every valid taxonomy of at most    *)
(* MaxAttrNodes nodes of kind tag with every order value in 0..MaxOrder,   *)
(* ids by position or by position from the end, the first node's label     *)
(* extending the label of the others; then swapNodeOrder with every id and *)
(* direction.                                                              *)

InitSwap ==
    /\ \E n \in 0..MaxAttrNodes :
          \E par \in Forests(n),
             orders \in [1..n -> SortOrders],
             mode \in {"position", "reversed"} :
              data = RawTaxonomy(JStr(SCHEMA_VERSION),
                         [i \in 1..n |->
                             JsNode(ModeId(mode, n, i), SortLabel(i),
                                    IF par[i] = 0 THEN NULL ELSE ModeId(mode, n, par[i]),
                                    KindTag, orders[i])])
    /\ jsonString = NoString
    /\ BlankButStoreInput
    /\ BlankStore

NextSwap == SetTaxonomy \/ SwapNodeOrder

SpecSwap == InitSwap /\ [][NextSwap]_vars

\* The call kept in call was swapNodeOrder on a store with an index.
Swapped == call.op = "swapNodeOrder" /\ call.before.index # NoStoreIndex

\* The siblings of the node of the call in the index the call found: the
\* childrenOf entry of its parentId.
SwapSiblings ==
    LET idx == call.before.index
    IN  idx.childrenOf[idx.byId[call.args.nodeId].parentId]

\* The node of the call is known and can move in the direction given.
SwapMoves ==
    /\ call.args.nodeId \in DOMAIN call.before.index.byId
    /\ LET at == IndexOf(call.args.nodeId, SwapSiblings)
       IN  IF call.args.direction = "up" THEN at > 1 ELSE at < Len(SwapSiblings)

\* The siblings with the node of the call and its neighbour exchanged.
SwapExpected ==
    LET at == IndexOf(call.args.nodeId, SwapSiblings)
        to == IF call.args.direction = "up" THEN at - 1 ELSE at + 1
    IN  [k \in DOMAIN SwapSiblings |->
            IF k = at THEN SwapSiblings[to]
            ELSE IF k = to THEN SwapSiblings[at]
            ELSE SwapSiblings[k]]

\* Two siblings of the node of the call had the same order.
SwapSiblingsTied ==
    \E i, j \in DOMAIN SwapSiblings :
        /\ i # j
        /\ call.before.index.byId[SwapSiblings[i]].order =
               call.before.index.byId[SwapSiblings[j]].order

SwapAsClaimed ==
    IF SwapMoves
    THEN /\ call.status = "returned"
         /\ store.index # NoStoreIndex
         /\ store.index.childrenOf[call.before.index.byId[call.args.nodeId].parentId] =
                SwapExpected
    ELSE store = call.before

\* C23 as claimed: swapNodeOrder on a node that can move in the direction
\* given exchanges it with that neighbour in childrenOf and keeps every
\* other sibling in place, also when siblings share an order value; on any
\* other node or an unknown id the taxonomy and the index are unchanged.
C23_SwapExchangesNeighbours ==
    Swapped => SwapAsClaimed

\* The same holds of the code when no two siblings of the node share an
\* order value.
C23_SwapExchangesUntiedNeighbours ==
    (Swapped /\ (SwapMoves => ~SwapSiblingsTied)) => SwapAsClaimed

---------------------------------------------------------------------------
(* Delete specification: setTaxonomy with every valid taxonomy of at most  *)
(* MaxAttrNodes nodes with ids by position and every kind, then deleteNode *)
(* with every id of the taxonomy and an id of no node.                     *)

InitDelete ==
    /\ \E n \in 0..MaxAttrNodes :
          \E par \in Forests(n),
             kinds \in [1..n -> {KindFolder, KindTag}] :
              data = RawTaxonomy(JStr(SCHEMA_VERSION),
                         [i \in 1..n |->
                             JsNode(PosId(i), StrA1,
                                    IF par[i] = 0 THEN NULL ELSE PosId(par[i]),
                                    kinds[i], 0)])
    /\ jsonString = NoString
    /\ BlankButStoreInput
    /\ BlankStore

NextDelete == SetTaxonomy \/ DeleteNode

SpecDelete == InitDelete /\ [][NextDelete]_vars

\* The call kept in call was deleteNode on a store with an index.
Deleted == call.op = "deleteNode" /\ call.before.index # NoStoreIndex

\* The nodes the call found and the nodes the store holds.
NodesBefore == Get(call.before.taxonomy, "nodes").a

NodesAfter == Get(store.taxonomy, "nodes").a

\* The parentId value of the node found with the id value, null when no
\* node has it.
ParentBefore(id) ==
    IF \E i \in DOMAIN NodesBefore : Get(NodesBefore[i], "id") = id
    THEN Get(NodesBefore[CHOOSE i \in DOMAIN NodesBefore : Get(NodesBefore[i], "id") = id],
             "parentId")
    ELSE JNull

RECURSIVE AncestorBefore(_, _)
\* The k-th ancestor of the node with the id value (0: the node itself).
AncestorBefore(id, k) ==
    IF k = 0 THEN id ELSE ParentBefore(AncestorBefore(id, k - 1))

\* The positions of the node of the call and of all its descendants.
Doomed ==
    {i \in DOMAIN NodesBefore :
        \E k \in 0..Len(NodesBefore) :
            AncestorBefore(Get(NodesBefore[i], "id"), k) = JStr(call.args.nodeId)}

\* The positions of the children of the node of the call.
ChildrenBefore ==
    {i \in DOMAIN NodesBefore : Get(NodesBefore[i], "parentId") = JStr(call.args.nodeId)}

\* C25: deleteNode answers not_found for an unknown id and folder_not_empty
\* for a folder with a child and then leaves taxonomy and index as they
\* were; otherwise it removes the node and all its descendants and nothing
\* else, the taxonomy left has no orphan and its index is built, and
\* removedTagIds holds the removed nodes of kind 'tag', each once.
C25_DeleteNode ==
    Deleted =>
        IF Doomed = {}
        THEN call.result = NotFound /\ store = call.before
        ELSE IF /\ \E i \in Doomed : /\ Get(NodesBefore[i], "id") = JStr(call.args.nodeId)
                                       /\ Get(NodesBefore[i], "kind") = JStr(KindFolder)
                /\ ChildrenBefore # {}
        THEN call.result = FolderNotEmpty /\ store = call.before
        ELSE /\ call.status = "returned"
             /\ call.result.success
             /\ NodesAfter = SelectSeq(NodesBefore,
                                        LAMBDA n : \A i \in Doomed : NodesBefore[i] # n)
             /\ \A j \in DOMAIN NodesAfter :
                    \/ Get(NodesAfter[j], "parentId") = JNull
                    \/ \E k \in DOMAIN NodesAfter :
                           Get(NodesAfter[k], "id") = Get(NodesAfter[j], "parentId")
             /\ store.index =
                    StoreIndex(store.taxonomy, buildTaxonomyIndex(AsTagNodes(store.taxonomy)))
             /\ Range(call.result.removedTagIds) =
                    {Get(NodesBefore[i], "id").s :
                        i \in {d \in Doomed : Get(NodesBefore[d], "kind") = JStr(KindTag)}}
             /\ Injective(call.result.removedTagIds)

\* A tag with a folder below it and a tag below that was deleted: no node
\* is left and the two tags were returned.
C25_Witness ==
    /\ Deleted
    /\ Len(NodesBefore) = 3
    /\ Doomed = {1, 2, 3}
    /\ Get(NodesBefore[1], "kind") = JStr(KindTag)
    /\ Get(NodesBefore[2], "kind") = JStr(KindFolder)
    /\ Get(NodesBefore[3], "kind") = JStr(KindTag)
    /\ Get(NodesBefore[2], "parentId") = JStr(call.args.nodeId)
    /\ Get(NodesBefore[3], "parentId") = Get(NodesBefore[2], "id")
    /\ NodesAfter = <<>>
    /\ call.result.success
    /\ Len(call.result.removedTagIds) = 2

---------------------------------------------------------------------------
(* Store specification: every sequence of at most MaxStoreCalls calls of   *)
(* loadTaxonomy, setTaxonomy, clearTaxonomy, updateNodeLabel,              *)
(* updateTagData, swapNodeOrder, deleteNode and createNode.  setTaxonomy   *)
(* is given a folder with a tag in it, two root tags of equal order, or a  *)
(* tag with a parentId of no node; loadTaxonomy a string that is no JSON,  *)
(* or the text of a folder with a tag in it, both without order.           *)

StoreTaxonomies ==
    {RawTaxonomy(JStr(SCHEMA_VERSION),
         <<JsNode(PosId(1), StrA1, NULL, KindFolder, 0),
           JsNode(PosId(2), StrA1, PosId(1), KindTag, 0)>>),
     RawTaxonomy(JStr(SCHEMA_VERSION),
         <<JsNode(PosId(2), StrA1, NULL, KindTag, 0),
           JsNode(PosId(1), StrA1, NULL, KindTag, 0)>>),
     RawTaxonomy(JStr(SCHEMA_VERSION),
         <<JsNode(PosId(1), StrA1, StaleId, KindTag, 0)>>)}

StoreTexts ==
    {NotJson,
     JsonText(RawTaxonomy(JStr(SCHEMA_VERSION),
                  <<RawNode(JStr(PosId(1)), JStr(StrA1), JNull, JStr(KindFolder), JUndefined),
                    RawNode(JStr(PosId(2)), JStr(StrA1), JStr(PosId(1)), JStr(KindTag),
                            JUndefined)>>),
              0)}

InitStore ==
    /\ data \in StoreTaxonomies
    /\ jsonString \in StoreTexts
    /\ BlankButStoreInput
    /\ BlankStore

NextStore ==
    \/ LoadTaxonomy
    \/ SetTaxonomy
    \/ ClearTaxonomy
    \/ UpdateNodeLabel
    \/ UpdateTagData
    \/ SwapNodeOrder
    \/ DeleteNode
    \/ CreateNode

SpecStore == InitStore /\ [][NextStore]_vars

\* C22: in every state of the store the index is null exactly when the
\* taxonomy is null, and otherwise it is the index that buildTaxonomyIndex
\* builds from the taxonomy held: index.taxonomy is that taxonomy and the
\* four maps are those of a fresh build.
C22_IndexIsFreshBuild ==
    /\ (store.index = NoStoreIndex) <=> (store.taxonomy = NoTaxonomy)
    /\ (store.taxonomy # NoTaxonomy) =>
          LET built == buildTaxonomyIndex(AsTagNodes(store.taxonomy))
          IN  /\ built.status = "ok"
              /\ store.index.taxonomy = store.taxonomy
              /\ store.index.byId = built.byId
              /\ store.index.childrenOf = built.childrenOf
              /\ store.index.siblingOrdinal = built.siblingOrdinal
              /\ store.index.sortPathCache = built.sortPathCache

\* A label was changed by updateNodeLabel on a store that held two root
\* tags of one label and order, and the renamed node went from last to
\* first in childrenOf.
C22_Witness ==
    /\ call.op = "updateNodeLabel"
    /\ call.status = "returned"
    /\ call.args.nodeId = PosId(2)
    /\ call.before.index # NoStoreIndex
    /\ NULL \in DOMAIN call.before.index.childrenOf
    /\ call.before.index.childrenOf[NULL] = <<PosId(1), PosId(2)>>
    /\ store.index.childrenOf[NULL] = <<PosId(2), PosId(1)>>
    /\ store.index.byId[PosId(2)].label = StrComma

\* Some node of the taxonomy held has a label with a comma.
CommaInLabel ==
    /\ store.taxonomy # NoTaxonomy
    /\ \E i \in DOMAIN Get(store.taxonomy, "nodes").a :
          \E k \in DOMAIN Get(Get(store.taxonomy, "nodes").a[i], "label").s :
              Get(Get(store.taxonomy, "nodes").a[i], "label").s[k] = 44

---------------------------------------------------------------------------
(* Label specification: loadTaxonomy of the strings of the store           *)
(* specification, and every sequence of updateNodeLabel, updateTagData,    *)
(* createNode, swapNodeOrder and deleteNode after it (at most              *)
(* MaxStoreCalls calls in all).                                            *)

InitLabels ==
    /\ data = NoData
    /\ jsonString \in StoreTexts
    /\ BlankButStoreInput
    /\ BlankStore

NextLabels ==
    \/ LoadTaxonomy
    \/ UpdateNodeLabel
    \/ UpdateTagData
    \/ CreateNode
    \/ SwapNodeOrder
    \/ DeleteNode

SpecLabels == InitLabels /\ [][NextLabels]_vars

\* C26: the taxonomy held was imported, or came from an imported one by
\* updateNodeLabel, updateTagData, createNode, swapNodeOrder and deleteNode
\* with arbitrary arguments, and no node of it has a comma in its label.
C26_NoCommaInLabel == ~CommaInLabel

---------------------------------------------------------------------------
(* Rehydration specification: the store comes back from storage with a     *)
(* persisted taxonomy of at most MaxAttrNodes tags and no index, the       *)
(* parentId of a node being null, the id of a node (its own included) or   *)
(* an id of no node, and the last id being new or the first one again;     *)
(* onRehydrateStorage runs once on it.                                     *)

PersistedTaxonomies(n) ==
    {RawTaxonomy(JStr(SCHEMA_VERSION),
                 [i \in 1..n |-> JsNode(ModeId(mode, n, i), StrA1, parents[i], KindTag, 0)]) :
        parents \in [1..n -> {NULL, StaleId} \cup {PosId(k) : k \in 1..n}],
        mode \in {"position", "duplicate"}}

InitRehydrate ==
    /\ \E n \in 1..MaxAttrNodes : data \in PersistedTaxonomies(n)
    /\ jsonString = NoString
    /\ BlankButStoreInput
    /\ store = [InitialStore EXCEPT !.taxonomy = data]
    /\ call = NoStoreCall

NextRehydrate == Rehydrate

SpecRehydrate == InitRehydrate /\ [][NextRehydrate]_vars

\* onRehydrateStorage ran on the persisted taxonomy.
Rehydrated == call.op = "rehydrate"

\* The persisted taxonomy fails validateTaxonomy.
PersistedInvalid == ~validateTaxonomy(call.before.taxonomy, "undefined").valid

\* C24: for every persisted taxonomy, one that fails validation included,
\* onRehydrateStorage returns, the errors of validateTaxonomy are in
\* validationErrors, and the index is built (not null).
C24_RehydrateBuildsIndex ==
    Rehydrated =>
        /\ call.status = "returned"
        /\ store.validationErrors =
               validateTaxonomy(call.before.taxonomy, "undefined").errors
        /\ store.error = PersistedInvalid
        /\ store.index # NoStoreIndex

\* What holds of onRehydrateStorage: the validation errors are stored in
\* every case; the index is built when the persisted taxonomy is valid or
\* its only fault is a repeated id, and is left null when a parentId names
\* no node or the parent links make a cycle.
RehydrateStoresErrors ==
    Rehydrated =>
        /\ store.validationErrors =
               validateTaxonomy(call.before.taxonomy, "undefined").errors
        /\ store.error = PersistedInvalid
        /\ store.taxonomy = call.before.taxonomy
        /\ (call.status = "returned") <=> (store.index # NoStoreIndex)
        /\ (~PersistedInvalid) => call.status = "returned"

\* A persisted taxonomy with a repeated id, which fails validation, was
\* rehydrated and its index built.
RehydratedDuplicateId ==
    /\ Rehydrated
    /\ PersistedInvalid
    /\ call.status = "returned"
    /\ store.index # NoStoreIndex

---------------------------------------------------------------------------
(* The circular reference check of validateTaxonomy, stated on the node    *)
(* list itself: a parent of a node is a node whose id is its parentId.     *)

\* The places in the node list of the parents of the node at place i.
ParentPlaces(i) ==
    {j \in DOMAIN DataNodes :
        /\ Get(DataNodes[j], "id").t = "string"
        /\ Get(DataNodes[j], "id") = Get(DataNodes[i], "parentId")}

\* The places reached from place i by one to k parent steps.
RECURSIVE PlacesAbove(_, _)
PlacesAbove(i, k) ==
    IF k = 0 THEN {}
    ELSE LET below == PlacesAbove(i, k - 1)
         IN  below \cup ParentPlaces(i) \cup UNION {ParentPlaces(j) : j \in below}

AncestorPlaces(i) == PlacesAbove(i, Len(DataNodes))

\* The parent chain of the node at place i reaches a cycle: the node or one
\* of its ancestors is its own ancestor.
ReachesCycle(i) ==
    \E k \in AncestorPlaces(i) \cup {i} : k \in AncestorPlaces(k)

\* A CIRCULAR_REF error was returned for the node at place i.
CircularRefReported(i) ==
    \E e \in DOMAIN validation.errors :
        /\ validation.errors[e].code = "CIRCULAR_REF"
        /\ validation.errors[e].path = NodePath(Get(DataNodes[i], "id").s)

\* Every element of the node list is an object with a non-empty string id,
\* and no two of them have the same id.
IdsAdmitted ==
    \A i \in DOMAIN DataNodes :
        /\ Get(DataNodes[i], "id").t = "string"
        /\ Get(DataNodes[i], "id").s # StrEmpty
        /\ \A j \in DOMAIN DataNodes :
              (Get(DataNodes[j], "id") = Get(DataNodes[i], "id")) => (i = j)

---------------------------------------------------------------------------
(* Frame specification: the core operations on one taxonomy of at most     *)
(* MaxExportNodes tags, held both as the node list of buildTaxonomyIndex   *)
(* and as the taxonomy object of initializeOrder and normalizeOrder, with  *)
(* every order value in 0..MaxOrder, and on one selection of at most       *)
(* MaxSel ids, an id of no node among them.  What an operation is given    *)
(* stays in the variable it was given in.                                  *)

InitFrame ==
    /\ \E n \in 0..MaxExportNodes :
          \E par \in Forests(n),
             orders \in [1..n -> SortOrders] :
              taxonomy = MkTaxonomy(n, [i \in 1..n |-> PosId(i)], par,
                                    [i \in 1..n |-> SortLabel(i)], [i \in 1..n |-> "tag"],
                                    orders, [i \in 1..n |-> "undefined"])
    /\ selectedIds \in Selections
    /\ orderInput =
          RawTaxonomy(JStr(SCHEMA_VERSION),
              [i \in DOMAIN taxonomy |->
                  JsNode(taxonomy[i].id, taxonomy[i].label, taxonomy[i].parentId,
                         taxonomy[i].kind, taxonomy[i].order)])
    /\ cmpCall = NoCall
    /\ index = NoIndex
    /\ closure = NoValue
    /\ exportSet = NoValue
    /\ sortInput = NoValue
    /\ sortedIds = [status |-> "none", ids |-> NoValue]
    /\ output = NoOutput
    /\ fmtCall = NoFmtCall
    /\ data = NoData
    /\ options = "undefined"
    /\ validation = NoValidation
    /\ jsonString = NoString
    /\ imported = NoImport
    /\ exported = NoString
    /\ reimported = NoImport
    /\ initialized = NoData
    /\ normalized = NoData
    /\ BlankStore

\* closure = computeClosure(index, selectedIds): a new Set is filled.
ClosureOfSelection ==
    /\ index.status = "ok"
    /\ closure = NoValue
    /\ closure' = computeClosure(index, selectedIds)
    /\ UNCHANGED <<cmpCall, taxonomy, index, selectedIds, exportSet, sortInput, sortedIds,
                   output>>
    /\ UNCHANGED ioVars
    /\ UNCHANGED storeVars

\* exportSet = computeExportSet(index, selectedIds, { includeAncestors }):
\* a new Set is filled from the closure or from the selection.
ExportSetOfSelection ==
    /\ index.status = "ok"
    /\ exportSet = NoValue
    /\ \E option \in ExportFields :
          exportSet' = computeExportSet(index, selectedIds, option)
    /\ UNCHANGED <<cmpCall, taxonomy, index, selectedIds, closure, sortInput, sortedIds,
                   output>>
    /\ UNCHANGED ioVars
    /\ UNCHANGED storeVars

NextFrame ==
    \/ BuildTaxonomyIndex
    \/ ClosureOfSelection
    \/ ExportSetOfSelection
    \/ SortExportSet
    \/ FormatForMylio
    \/ InitializeOrder
    \/ NormalizeOrder

SpecFrame == InitFrame /\ [][NextFrame]_vars

\* What the operations are given is after a step what it was before it.
InputsKept ==
    /\ taxonomy' = taxonomy
    /\ orderInput' = orderInput
    /\ selectedIds' = selectedIds
    /\ (index.status = "ok") => (index' = index)
    /\ (exportSet # NoValue) => (exportSet' = exportSet)
    /\ (sortedIds.status = "ok") => (sortedIds' = sortedIds)

\* C28: buildTaxonomyIndex, computeClosure, computeExportSet, sortByUserOrder,
\* formatForMylio, initializeOrder and normalizeOrder leave the node list and
\* its nodes, the selection, the index and the id lists they are given as
\* they were; initializeOrder and normalizeOrder return another taxonomy.
C28_InputsUnchanged == [][InputsKept]_vars

\* Every operation has run on two root tags held in the order 1, 0 and a
\* selection of both: the index lists them the other way round, and the
\* taxonomy given is as it was given.
C28_Witness ==
    /\ Len(taxonomy) = 2
    /\ taxonomy[1].order = 1 /\ taxonomy[2].order = 0
    /\ taxonomy[1].parentId = NULL /\ taxonomy[2].parentId = NULL
    /\ Len(selectedIds) = 2
    /\ index.status = "ok"
    /\ index.childrenOf[NULL] = <<PosId(2), PosId(1)>>
    /\ closure # NoValue
    /\ exportSet # NoValue
    /\ sortedIds.status = "ok"
    /\ sortedIds.ids = <<PosId(2), PosId(1)>>
    /\ output # NoOutput
    /\ initialized # NoData
    /\ normalized # NoData
    /\ Get(Get(normalized, "nodes").a[1], "order") = JNum(1)
    /\ Get(Get(orderInput, "nodes").a[1], "id") = JStr(PosId(1))

---------------------------------------------------------------------------
(* Stale ids in the selection (export pipeline specification) *)

\* The selection of the pipeline holds an id of no node.
StaleSelected == selectedIds # NoValue /\ InSeq(StaleId, selectedIds)

\* The selection without the ids of no node.
LiveSelection == SelectSeq(selectedIds, LAMBDA id : id \in DOMAIN index.byId)

\* C29: for every selection, one with an id of no node included, the export
\* set holds only ids of byId, sortByUserOrder of it returns, and the output
\* is the labels of the ids of the export set, one for each, joined by ", ":
\* it is the output for the selection without the ids of no node.
C29_StaleIdsDisappear ==
    /\ (exportSet # NoValue) =>
          /\ \A i \in DOMAIN exportSet : exportSet[i] \in DOMAIN index.byId
          /\ Range(exportSet) = Range(computeExportSet(index, LiveSelection,
                                          IF closure = NoValue THEN "false" ELSE "true"))
    /\ (sortedIds.status # "none") =>
          /\ sortedIds.status = "ok"
          /\ Len(sortedIds.ids) = Len(exportSet)
          /\ Range(sortedIds.ids) = Range(exportSet)
    /\ (output # NoOutput) =>
          /\ output = Join([i \in DOMAIN sortedIds.ids |-> index.byId[sortedIds.ids[i]].label],
                           DEFAULT_SEPARATOR)
          /\ output = ExportText(taxonomy, LiveSelection,
                                 IF closure = NoValue THEN "false" ELSE "true")

\* An id of no node was selected between two ids of nodes, without
\* ancestors: two labels were output.
C29_Witness ==
    /\ output # NoOutput
    /\ closure = NoValue
    /\ Len(selectedIds) = 3
    /\ selectedIds[2] = StaleId
    /\ Len(exportSet) = 2
    /\ Len(sortedIds.ids) = 2
    /\ output = index.byId[sortedIds.ids[1]].label \o DEFAULT_SEPARATOR
                    \o index.byId[sortedIds.ids[2]].label


===========================================================================
